---- MODULE Spec2Model ----
(***************************************************************************)
(* Enforcement dataplane of the Infrapass sidecar: the router of           *)
(* bin/sidecar.rs, auth_middleware, proxy_handler and the atomic           *)
(* check-and-decrement script, over one (user, service) pair of cache      *)
(* keys shared by concurrent request tasks.                                *)
(*                                                                         *)
(* Every await of proxy_handler is one action; the code between two        *)
(* awaits runs inside the action that ends at the later await.  Request    *)
(* headers are drawn when the code reads them.  The cache store answers    *)
(* every command (connection errors of the store are not modelled); its    *)
(* keys carry the timeouts they were written with and are dropped by the   *)
(* clock.  The pub/sub listener of pubsub/subscriber.rs is a task of its   *)
(* own, one action per await, fed by a bounded channel.                    *)
(*                                                                         *)
(* The forward to the upstream (headers put on the request, the answer     *)
(* reqwest returns, the detached record_usage task) is followed for one    *)
(* request.  On the backend's side, the event worker of events/worker.rs   *)
(* takes ledger events off its channel and applies them to the relational  *)
(* store through db/repository.rs, one action per awaited statement, and   *)
(* the validator API of backend/ serves /validate and /record_usage        *)
(* behind its bearer-token layer.                                          *)
(***************************************************************************)
EXTENDS Integers, Sequences, FiniteSets, TLC

----------------------------------------------------------------------------
(* Bounds *)

\* width of the scaled-down integers: u64 is modelled as Bits-bit unsigned,
\* i64 as Bits-bit two's complement
Bits == 4
\* largest quota / units value the validator or a preloaded counter holds
MaxQuota == 2
\* the clock runs from 0 to MaxNow
MaxNow == 1

\* most messages delivered to the listener and not yet read
MaxChan == 1
\* most headers a client sends besides the address and service headers
MaxHdrs == 2
\* most ledger events the listener hands to the event worker
MaxEvents == 2
\* capacity of the listener-to-worker channel (256 in bin/server.rs),
\* scaled down, and most events the listener parses when the channel is
\* followed at that capacity
ChannelCap == 2
MaxParsed == 3

\* the request tasks that may be in flight together
Reqs == {"r1", "r2"}

U64_MOD == 2 ^ Bits
U64_MAX == U64_MOD - 1
I64_MAX == (U64_MOD \div 2) - 1

\* default_cache_ttl_ms() / 1000
CACHE_TTL_SECS == 15

----------------------------------------------------------------------------
(* Option<T>: None is the empty sequence, Some(v) a one-element sequence *)

None == << >>
Some(v) == << v >>
IsSome(o) == o # None
Unwrap(o) == o[1]

----------------------------------------------------------------------------
VARIABLES
    cfg,        \* SidecarConfig: auth_mode, fail_open, cache_ttl_ms
    now,        \* Utc::now()
    entKey,     \* Option: value of entitlement:{user}:{service}
    quotaKey,   \* Option: value of quota:{user}:{service}
    entDl,      \* the time at which the store drops the entitlement key
    quotaDl,    \* the time at which the store drops the counter key
    quota0,     \* history: the counter key at start
    req,        \* per request task: position and locals of its handler
    call,       \* one stand-alone invocation of the atomic script
    sub,        \* the pub/sub listener task: position, locals, history
    chan,       \* messages delivered to the listener's connection, unread
    fwd,        \* the upstream exchange and the record_usage task of a request
    db,         \* the tables of the backend database
    rx,         \* the channel from the ledger listener to the event worker
    worker,     \* the EventWorker task: position, locals, history
    api         \* the request tasks of the validator API server

vars == << cfg, now, entKey, quotaKey, entDl, quotaDl, quota0, req, call,
           sub, chan, fwd, db, rx, worker, api >>

\* the sidecar's side: configuration, clock, cache store, request tasks,
\* listener
sidecar == << cfg, now, entKey, quotaKey, entDl, quotaDl, quota0, req, call,
              sub, chan >>

\* the upstream exchange and the backend's side
backend == << fwd, db, rx, worker, api >>

\* the schema of blockchain_events: with a unique index on the event's
\* identity, or accepting duplicate rows
EventsUnique == BOOLEAN

\* the database before any event or usage record; events_unique tells
\* which schema blockchain_events has
EmptyDb ==
    [providers |-> {}, services |-> {}, pricing_tiers |-> {},
     entitlements |-> {}, blockchain_events |-> << >>, usage |-> << >>,
     events_unique |-> FALSE]

\* the worker's channel: payloads queued, payloads sent so far, sender gone,
\* the parsed payload the listener's send() holds.  History: sentLog, the
\* payloads sent, and recvd, the payloads received, both in order
IdleRx ==
    [queue |-> << >>, sent |-> 0, closed |-> FALSE, inhand |-> << >>,
     sentLog |-> << >>, recvd |-> << >>]

\* the event worker before run(): position, the payload in hand, whether a
\* connection fault hit the handling in hand, and history; inserted, pubd
\* and channel tell of the handling in hand whether create_entitlement
\* returned the row, how many messages were published and on which channel
IdleWorker ==
    [pc |-> "idle", ev |-> "", fault |-> FALSE, handled |-> 0,
     published |-> 0, log |-> << >>, lastEv |-> << >>, lastDb |-> << >>,
     replay |-> "none", inserted |-> FALSE, pubd |-> 0, channel |-> << >>]

\* the request tasks of the validator API server
ApiReqs == {"a1", "a2"}

IdleApiReq ==
    [pc |-> "idle", route |-> "", authz |-> "unread", cost |-> 0,
     handler |-> FALSE, commit |-> "none", status |-> 0, reads |-> 0,
     writes |-> 0]

BackendIdle ==
    /\ db = EmptyDb
    /\ rx = IdleRx
    /\ worker = IdleWorker
    /\ api = [a \in ApiReqs |-> IdleApiReq]

\* no upstream exchange: the further client headers, the headers put on the
\* upstream request, the upstream's own answer, the response reqwest
\* returned, the body handed to the client, the record_usage task
NoFwd ==
    [extra |-> << >>, sent |-> << >>, first |-> << >>, resp |-> << >>,
     body |-> << >>, usage |-> "none", posts |-> 0]

----------------------------------------------------------------------------
(* CachedEntitlement and ValidateResponse *)

Ent(id, tier, t, q, u, x) ==
    [id |-> id, tier |-> tier, tier_type |-> t, quota |-> q, units |-> u,
     expires_at |-> x]

VR(id, tier, t, q, u, x) ==
    [entitlement_id |-> id, tier |-> tier, tier_type |-> t, quota |-> q,
     units |-> u, expires_at |-> x]

\* CachedEntitlement::allowed
allowed(e, t) ==
    CASE e.tier_type = 0 ->
            IF IsSome(e.expires_at) THEN Unwrap(e.expires_at) > t ELSE FALSE
      [] e.tier_type = 2 ->
            /\ (IF IsSome(e.quota) THEN Unwrap(e.quota) > 0 ELSE FALSE)
            /\ (IF IsSome(e.expires_at) THEN Unwrap(e.expires_at) > t ELSE FALSE)
      [] e.tier_type = 3 ->
            IF IsSome(e.units) THEN Unwrap(e.units) > 0 ELSE FALSE
      [] OTHER -> FALSE

\* validator::to_cached
to_cached(resp) ==
    Ent(resp.entitlement_id, resp.tier, resp.tier_type, resp.quota,
        resp.units, resp.expires_at)

\* the 200 bodies the validator may answer with
ValResponses ==
    { VR("e0", "t0", 0, Some(MaxQuota), None, Some(MaxNow)),
      VR("e1", "t1", 1, Some(MaxQuota), None, Some(MaxNow)),
      VR("e2", "t2", 2, Some(MaxQuota), None, Some(MaxNow)),
      VR("e2z", "t2", 2, Some(0), None, Some(MaxNow)),
      VR("e3", "t3", 3, None, Some(MaxQuota), None) }

\* entitlements a cache may already hold when the sidecar starts
Preloaded ==
    { to_cached(VR("e0p", "t0", 0, None, None, Some(MaxNow))),
      to_cached(VR("e2", "t2", 2, Some(MaxQuota), None, Some(MaxNow))),
      to_cached(VR("e3", "t3", 3, None, Some(MaxQuota), None)) }

----------------------------------------------------------------------------
(* The atomic script *)

\* `cost as i64` of a u64
AsI64(c) == IF c > I64_MAX THEN c - U64_MOD ELSE c

\* faulty variant: the comparison is <= instead of <
LuaRejectsExactCost(counter, cost, tier_type) ==
    IF tier_type = 0 THEN [ret |-> 0, counter |-> counter, wrote |-> FALSE]
    ELSE IF tier_type = 2 \/ tier_type = 3 THEN
        IF counter = None
        THEN [ret |-> -2, counter |-> counter, wrote |-> FALSE]
        ELSE IF Unwrap(counter) <= cost
        THEN [ret |-> -1, counter |-> counter, wrote |-> FALSE]
        ELSE [ret |-> Unwrap(counter) - cost,
              counter |-> Some(Unwrap(counter) - cost), wrote |-> TRUE]
    ELSE [ret |-> -3, counter |-> counter, wrote |-> FALSE]

\* faulty variant: the early return of tier 0 is missing and tier 0 takes the
\* counter branch
LuaNoTier0Return(counter, cost, tier_type) ==
    IF tier_type = 0 \/ tier_type = 2 \/ tier_type = 3 THEN
        IF counter = None
        THEN [ret |-> -2, counter |-> counter, wrote |-> FALSE]
        ELSE IF Unwrap(counter) < cost
        THEN [ret |-> -1, counter |-> counter, wrote |-> FALSE]
        ELSE [ret |-> Unwrap(counter) - cost,
              counter |-> Some(Unwrap(counter) - cost), wrote |-> TRUE]
    ELSE [ret |-> -3, counter |-> counter, wrote |-> FALSE]

\* LUA_ATOMIC_CHECK_AND_DECREMENT: the value returned and the counter key
\* afterwards
LUA_ATOMIC_CHECK_AND_DECREMENT(counter, cost, tier_type) ==
    IF tier_type = 0 THEN [ret |-> 0, counter |-> counter, wrote |-> FALSE]
    ELSE IF tier_type = 2 \/ tier_type = 3 THEN
        IF counter = None
        THEN [ret |-> -2, counter |-> counter, wrote |-> FALSE]
        ELSE IF Unwrap(counter) < cost
        THEN [ret |-> -1, counter |-> counter, wrote |-> FALSE]
        ELSE [ret |-> Unwrap(counter) - cost,
              counter |-> Some(Unwrap(counter) - cost), wrote |-> TRUE]
    ELSE [ret |-> -3, counter |-> counter, wrote |-> FALSE]

----------------------------------------------------------------------------
(* Pub/sub messages: pubsub/types.rs and pubsub/publisher.rs *)

\* TierEntitlement
Subscription(x) ==
    [variant |-> "Subscription", expires_at |-> x, quota_limit |-> 0,
     units |-> 0]
Quota(q, x) ==
    [variant |-> "Quota", expires_at |-> x, quota_limit |-> q, units |-> 0]
UsageBased(u) ==
    [variant |-> "UsageBased", expires_at |-> 0, quota_limit |-> 0,
     units |-> u]

\* TierEntitlement::from_u8; None stands for Err
from_u8(tier, expires_at, quota, units) ==
    CASE tier = 0 ->
            IF expires_at = None THEN None
            ELSE Some(Subscription(Unwrap(expires_at)))
      [] tier = 1 ->
            IF quota = None \/ expires_at = None THEN None
            ELSE Some(Quota(Unwrap(quota), Unwrap(expires_at)))
      [] tier = 2 ->
            IF units = None THEN None ELSE Some(UsageBased(Unwrap(units)))
      [] OTHER -> None

\* TierEntitlement::expires_at, quota, units
inner_expires_at(i) ==
    IF i.variant \in {"Subscription", "Quota"} THEN Some(i.expires_at)
    ELSE None
inner_quota(i) == IF i.variant = "Quota" THEN Some(i.quota_limit) ELSE None
inner_units(i) == IF i.variant = "UsageBased" THEN Some(i.units) ELSE None

\* EntitlementUpdateEvent::new
EntitlementUpdateEvent(ent_id, tier_id, tier_type, inner) ==
    [ent_id |-> ent_id, tier_id |-> tier_id, tier_type |-> tier_type,
     inner |-> inner]

\* faulty variant: the arm of tier_type 1 leaves the quota out, as the arm
\* of tier_type 0 does
to_cached_entitlement_noquota(u) ==
    CASE u.tier_type = 0 ->
            Some(Ent(u.ent_id, u.tier_id, u.tier_type, None, None,
                     inner_expires_at(u.inner)))
      [] u.tier_type = 1 ->
            Some(Ent(u.ent_id, u.tier_id, u.tier_type, None,
                     None, inner_expires_at(u.inner)))
      [] u.tier_type = 2 ->
            Some(Ent(u.ent_id, u.tier_id, u.tier_type, None,
                     inner_units(u.inner), None))
      [] OTHER -> None

\* EntitlementUpdateEvent::to_cached_entitlement; None stands for Err
to_cached_entitlement(u) ==
    CASE u.tier_type = 0 ->
            Some(Ent(u.ent_id, u.tier_id, u.tier_type, None, None,
                     inner_expires_at(u.inner)))
      [] u.tier_type = 1 ->
            Some(Ent(u.ent_id, u.tier_id, u.tier_type, inner_quota(u.inner),
                     None, inner_expires_at(u.inner)))
      [] u.tier_type = 2 ->
            Some(Ent(u.ent_id, u.tier_id, u.tier_type, None,
                     inner_units(u.inner), None))
      [] OTHER -> None

NoUpdate == EntitlementUpdateEvent("", "", 0, Subscription(0))

\* PubSubEvent of the one (user, service) pair; "junk" is a payload that
\* serde_json::from_str rejects
Invalidate == [action |-> "Invalidate", update |-> NoUpdate]
Refresh(u) == [action |-> "Refresh", update |-> u]
Junk == [action |-> "junk", update |-> NoUpdate]

\* the EntitlementPurchased events the worker may hand to the publisher:
\* expires_at, quota and units of event.inner
Purchases ==
    { [id |-> "pS", tier_id |-> "tS", expires_at |-> Some(MaxNow),
       quota |-> None, units |-> None],
      [id |-> "pQ", tier_id |-> "tQ", expires_at |-> Some(MaxNow + 1),
       quota |-> Some(MaxQuota), units |-> None],
      [id |-> "pU", tier_id |-> "tU", expires_at |-> None,
       quota |-> None, units |-> Some(MaxQuota)] }

\* the tier_type bytes event.inner.type_u8() may give
TierTypeBytes == 0 .. 3

\* PubSubPublisher::publish_refresh: the message published for purchase p
\* under tier_type t, None when from_u8 fails and nothing is published
publish_refresh(p, t) ==
    LET inner == from_u8(t, p.expires_at, p.quota, p.units) IN
    IF inner = None THEN None
    ELSE Some(Refresh(EntitlementUpdateEvent(p.id, p.tier_id, t,
                                             Unwrap(inner))))

\* every message the listener may be sent
Messages ==
    { Invalidate, Junk }
    \cup { Unwrap(publish_refresh(p, t)) :
              <<p, t>> \in { pt \in Purchases \X TierTypeBytes :
                               publish_refresh(pt[1], pt[2]) # None } }

\* the listener before get_async_pubsub.  History: last is the action of
\* the last message handled to the end, lastUpd and lastAt the update of the
\* last Refresh handled to the end and the time it ended, missed whether a
\* message was published while the listener held no subscription
IdleSub ==
    [pc |-> "start", msg |-> Invalidate, ttl |-> 0, qBefore |-> None,
     missed |-> FALSE, last |-> "none", lastUpd |-> NoUpdate, lastAt |-> 0]

\* the listener holds a subscription: the store delivers to it
Subscribed == sub.pc \notin {"start", "exited"}

\* the listener waits in stream.next() and nothing is left for it to read
ListenerQuiet == sub.pc = "listening" /\ chan = << >>

\* the entitlement an update stands for, field by field
Projection(u) ==
    [id |-> u.ent_id, tier |-> u.tier_id, tier_type |-> u.tier_type,
     quota |-> inner_quota(u.inner), units |-> inner_units(u.inner),
     expires_at |-> inner_expires_at(u.inner)]

\* the last thing the listener did was a Refresh of an unexpired quota
\* purchase with quota left, or of a pay-per-request purchase with units
\* left, and the entitlement key holds what that Refresh stands for
WarmedByRefresh ==
    /\ ListenerQuiet /\ sub.last = "Refresh"
    /\ entKey = Some(Projection(sub.lastUpd))
    /\ LET i == sub.lastUpd.inner IN
       \/ i.variant = "Quota" /\ i.quota_limit > 0 /\ i.expires_at > now
       \/ i.variant = "UsageBased" /\ i.units > 0

----------------------------------------------------------------------------
(* Request tasks *)

UnreadCost == [kind |-> "unread", n |-> 0]

IdleReq ==
    [pc |-> "idle", path |-> "", apiKey |-> "unread", authz |-> "unread",
     addr |-> "unread", costHdr |-> UnreadCost, svc |-> "unread",
     cost |-> 0, hit |-> "none", warm |-> FALSE, vres |-> "none",
     ent |-> None,
     has_entitlement |-> FALSE, ttl_secs |-> 0, result |-> None,
     qBefore |-> None, qAfter |-> None, status |-> 0, error |-> "",
     forwards |-> 0, ewrites |-> 0, qwrites |-> 0, spawned |-> 0,
     requests_denied |-> 0, requests_allowed |-> 0,
     cache_hits |-> 0, cache_misses |-> 0,
     trace |-> << >>]

\* METRICS.requests_denied.inc(), counted per request task
requests_denied_inc(rq) == [rq EXCEPT !.requests_denied = @ + 1]

\* METRICS.requests_allowed.inc(), counted per request task
requests_allowed_inc(rq) == [rq EXCEPT !.requests_allowed = @ + 1]

\* deny_response, returned from the handler
deny_response(rq, status, reason) ==
    [rq EXCEPT !.pc = "done", !.status = status, !.error = reason]

Stage(rq, s) == [rq EXCEPT !.trace = Append(@, s)]

Paths == {"/metrics", "/healthz", "/foo"}
Routes == {"/metrics", "/healthz"}

ApiKeyVals == {"absent", "nonascii", "secret", "wrong"}
AuthzVals == {"absent", "nonascii", "Bearer secret", "Bearer wrong", "secret"}
\* cfg.auth_secret; SidecarConfig::load refuses an empty secret
auth_secret == "secret"

HdrVals == {"absent", "nonascii", "ok"}
CostHdrVals ==
    { [kind |-> "absent", n |-> 0], [kind |-> "nonascii", n |-> 0],
      [kind |-> "junk", n |-> 0], [kind |-> "num", n |-> -1],
      [kind |-> "num", n |-> U64_MOD] }
    \cup { [kind |-> "num", n |-> k] : k \in {0, U64_MAX} }

----------------------------------------------------------------------------
(* proxy_handler, header extraction *)

\* str::parse::<u64>
parse_u64(h) ==
    IF h.kind = "num" /\ h.n >= 0 /\ h.n <= U64_MAX THEN Some(h.n) ELSE None

\* faulty variant: an absent cost header gives cost 0
extract_headers_cost0(rq, a, c, s) ==
    LET r0 == Stage(rq, "extract")
        r1 == [r0 EXCEPT !.addr = a]
    IN
    IF a = "nonascii" THEN deny_response(r1, 400, "invalid_address_header")
    ELSE IF a = "absent"
    THEN deny_response(requests_denied_inc(r1), 401, "missing_sui_address")
    ELSE LET r2 == [r1 EXCEPT !.costHdr = c] IN
         IF c.kind = "nonascii"
         THEN deny_response(r2, 400, "invalid_cost_header")
         ELSE IF c.kind # "absent" /\ parse_u64(c) = None
         THEN deny_response(r2, 400, "invalid_cost_header")
         ELSE LET r3 == [r2 EXCEPT
                           !.cost = IF c.kind = "absent" THEN 0
                                    ELSE Unwrap(parse_u64(c)),
                           !.svc = s]
              IN
              IF s = "nonascii"
              THEN deny_response(r3, 400, "invalid_service_header")
              ELSE IF s = "absent"
              THEN deny_response(requests_denied_inc(r3), 400,
                                 "missing_service_id")
              ELSE [r3 EXCEPT !.pc = "probe"]

\* proxy_handler, header extraction
extract_headers(rq, a, c, s) ==
    LET r0 == Stage(rq, "extract")
        r1 == [r0 EXCEPT !.addr = a]
    IN
    IF a = "nonascii" THEN deny_response(r1, 400, "invalid_address_header")
    ELSE IF a = "absent"
    THEN deny_response(requests_denied_inc(r1), 401, "missing_sui_address")
    ELSE LET r2 == [r1 EXCEPT !.costHdr = c] IN
         IF c.kind = "nonascii"
         THEN deny_response(r2, 400, "invalid_cost_header")
         ELSE IF c.kind # "absent" /\ parse_u64(c) = None
         THEN deny_response(r2, 400, "invalid_cost_header")
         ELSE LET r3 == [r2 EXCEPT
                           !.cost = IF c.kind = "absent" THEN 1
                                    ELSE Unwrap(parse_u64(c)),
                           !.svc = s]
              IN
              IF s = "nonascii"
              THEN deny_response(r3, 400, "invalid_service_header")
              ELSE IF s = "absent"
              THEN deny_response(requests_denied_inc(r3), 400,
                                 "missing_service_id")
              ELSE [r3 EXCEPT !.pc = "probe"]

----------------------------------------------------------------------------
(* Router and client authentication *)

\* HeaderValue::to_str
to_str(v) == IF v \in {"absent", "nonascii"} THEN None ELSE Some(v)

\* str::strip_prefix("Bearer ")
strip_bearer(v) ==
    CASE v = "Bearer secret" -> Some("secret")
      [] v = "Bearer wrong" -> Some("wrong")
      [] OTHER -> None

\* the handler the router matched, up to its first await: metrics_handler
\* answers at once, health_handler awaits the store's PING, proxy_handler
\* extracts the headers h and awaits the cache probe
service(rq, h) ==
    CASE rq.path = "/metrics" ->
            [Stage(rq, "handler") EXCEPT !.pc = "done", !.status = 200]
      [] rq.path = "/healthz" -> [Stage(rq, "handler") EXCEPT !.pc = "ping"]
      [] OTHER -> extract_headers(rq, h.addr, h.cost, h.svc)

\* auth_middleware; next.run(req) is the matched handler
auth_middleware(rq, mode, k, a, h) ==
    LET r0 == Stage(rq, "auth") IN
    CASE mode = "None" -> service(r0, h)
      [] mode = "ApiKey" ->
            LET r1 == [r0 EXCEPT !.apiKey = k]
                provided == IF IsSome(to_str(k)) THEN Unwrap(to_str(k)) ELSE ""
            IN IF provided = auth_secret THEN service(r1, h)
               ELSE deny_response(r1, 401, "invalid_api_key")
      [] OTHER ->
            LET r1 == [r0 EXCEPT !.authz = a]
                s == to_str(a)
                t == IF IsSome(s) THEN strip_bearer(Unwrap(s)) ELSE None
                provided == IF IsSome(t) THEN Unwrap(t) ELSE ""
            IN IF provided = auth_secret THEN service(r1, h)
               ELSE deny_response(r1, 401, "invalid_bearer_token")

\* bin/sidecar.rs: route_layer wraps the routes added before it with
\* auth_middleware; the fallback handler is not a route and is reached
\* without the middleware
Router(rq, path, mode, k, a, h) ==
    LET r0 == [rq EXCEPT !.path = path] IN
    IF path \in Routes THEN auth_middleware(r0, mode, k, a, h)
    ELSE service(r0, h)

----------------------------------------------------------------------------
(* proxy_handler, after the cache probe *)

\* proxy_handler from `if !has_entitlement` to the script guard
after_entitlement(rq) ==
    LET e == Unwrap(rq.ent) IN
    IF ~rq.has_entitlement
    THEN deny_response(requests_denied_inc(rq), 403,
                       "access_denied, no entitlement")
    ELSE IF e.tier_type # 0 /\ (IsSome(e.quota) \/ IsSome(e.units))
    THEN [rq EXCEPT !.pc = "script"]
    ELSE [requests_allowed_inc(rq) EXCEPT !.pc = "forward"]

\* ProxyState::get_entitlement: the GET and serde_json::from_str of what
\* set_entitlement serialised
get_entitlement == entKey

\* faulty variant: a subscription is seeded from its quota field too
seed_value_tier0(e, ok) ==
    IF ~ok THEN None
    ELSE CASE e.tier_type = 0 -> e.quota
           [] e.tier_type = 2 -> e.quota
           [] e.tier_type = 3 -> e.units
           [] OTHER -> None

\* faulty variant: every counter tier is seeded from the quota field
seed_value_quota_only(e, ok) ==
    IF ~ok THEN None
    ELSE CASE e.tier_type = 2 -> e.quota
           [] e.tier_type = 3 -> e.quota
           [] OTHER -> None

\* the value the miss path seeds the counter with, if any
seed_value(e, ok) ==
    IF ~ok THEN None
    ELSE CASE e.tier_type = 2 -> e.quota
           [] e.tier_type = 3 -> e.units
           [] OTHER -> None

\* faulty variant: the expiry instant itself is taken as the remaining time
ttl_of_absolute(e, t) ==
    IF IsSome(e.expires_at)
    THEN Unwrap(e.expires_at)
    ELSE cfg.cache_ttl_ms \div 1000

\* faulty variant: cache_ttl_ms is taken as seconds
ttl_of_millis(e, t) ==
    IF IsSome(e.expires_at)
    THEN (IF Unwrap(e.expires_at) - t > 0 THEN Unwrap(e.expires_at) - t ELSE 0)
    ELSE cfg.cache_ttl_ms

\* ttl_secs of the miss path
ttl_of(e, t) ==
    IF IsSome(e.expires_at)
    THEN (IF Unwrap(e.expires_at) - t > 0 THEN Unwrap(e.expires_at) - t ELSE 0)
    ELSE cfg.cache_ttl_ms \div 1000

ValidatorOutcomes ==
    { [kind |-> k, body |-> None] : k \in {"unreachable", "5xx", "403", "parse"} }
    \cup { [kind |-> "ok", body |-> Some(b)] : b \in ValResponses }

\* faulty variant: the fail_open test is inverted
on_validate_inverted(rq, out, fail_open, t) ==
    LET r1 == Stage([rq EXCEPT !.vres = out.kind], "validate") IN
    IF out.kind # "ok"
    THEN IF ~fail_open
         THEN deny_response(r1, 200, "validator_error, failing_open")
         ELSE deny_response(r1, 503, "validator_error")
    ELSE LET e == to_cached(Unwrap(out.body)) IN
         [r1 EXCEPT !.ent = Some(e), !.has_entitlement = allowed(e, t),
                    !.ttl_secs = ttl_of(e, t), !.pc = "set_ent"]

\* proxy_handler on the result of validator.validate
on_validate(rq, out, fail_open, t) ==
    LET r1 == Stage([rq EXCEPT !.vres = out.kind], "validate") IN
    IF out.kind # "ok"
    THEN IF fail_open
         THEN deny_response(r1, 200, "validator_error, failing_open")
         ELSE deny_response(r1, 503, "validator_error")
    ELSE LET e == to_cached(Unwrap(out.body)) IN
         [r1 EXCEPT !.ent = Some(e), !.has_entitlement = allowed(e, t),
                    !.ttl_secs = ttl_of(e, t), !.pc = "set_ent"]

\* faulty variant: the arm of -1 is missing and -1 falls to the default arm
on_script_result_no429(rq, n) ==
    CASE n = 0 -> [requests_allowed_inc(rq) EXCEPT !.pc = "forward"]
      [] n = -2 -> deny_response(requests_denied_inc(rq), 503,
                                 "quota_not_ready")
      [] n = -3 -> deny_response(requests_denied_inc(rq), 400,
                                 "unknown_tier_type")
      [] OTHER -> [requests_allowed_inc(rq) EXCEPT !.pc = "forward"]

\* faulty variant: the arm of -2 is missing and -2 falls to the default arm
on_script_result_no503(rq, n) ==
    CASE n = 0 -> [requests_allowed_inc(rq) EXCEPT !.pc = "forward"]
      [] n = -1 -> deny_response(requests_denied_inc(rq), 429,
                                 "quota_exceeded")
      [] n = -3 -> deny_response(requests_denied_inc(rq), 400,
                                 "unknown_tier_type")
      [] OTHER -> [requests_allowed_inc(rq) EXCEPT !.pc = "forward"]

\* proxy_handler on the value the script returned
on_script_result(rq, n) ==
    CASE n = 0 -> [requests_allowed_inc(rq) EXCEPT !.pc = "forward"]
      [] n = -1 -> deny_response(requests_denied_inc(rq), 429,
                                 "quota_exceeded")
      [] n = -2 -> deny_response(requests_denied_inc(rq), 503,
                                 "quota_not_ready")
      [] n = -3 -> deny_response(requests_denied_inc(rq), 400,
                                 "unknown_tier_type")
      [] OTHER -> [requests_allowed_inc(rq) EXCEPT !.pc = "forward"]

UpstreamOutcomes ==
    { [ok |-> FALSE, status |-> 0], [ok |-> TRUE, status |-> 200] }

\* faulty variant: record_usage is spawned whatever send returned
on_upstream_spawn_always(rq, out) ==
    LET r1 == Stage([rq EXCEPT !.forwards = @ + 1, !.spawned = @ + 1],
                    "forward") IN
    IF ~out.ok THEN deny_response(r1, 502, "upstream_error")
    ELSE [r1 EXCEPT !.pc = "done", !.status = out.status, !.error = ""]

\* proxy_handler on the result of upstream_req.send
on_upstream(rq, out) ==
    LET r1 == Stage([rq EXCEPT !.forwards = @ + 1], "forward") IN
    IF ~out.ok THEN deny_response(r1, 502, "upstream_error")
    ELSE [r1 EXCEPT !.spawned = @ + 1, !.pc = "done",
                    !.status = out.status, !.error = ""]

----------------------------------------------------------------------------
(* ProxyState: the commands sent to the cache store.  A key written with a  *)
(* timeout of n seconds at time t is dropped by the store at time t + n;    *)
(* the timeouts that end after the last tick of the clock are all recorded  *)
(* as ending at MaxNow + 1.                                                 *)

deadline(ttl_secs) ==
    IF now + ttl_secs > MaxNow THEN MaxNow + 1 ELSE now + ttl_secs

\* ProxyState::set_entitlement: SET then EXPIRE ttl in one pipeline; the
\* store deletes a key given a timeout of 0
set_entitlement(e, ttl_secs) ==
    /\ entKey' = IF ttl_secs = 0 THEN None ELSE Some(e)
    /\ entDl' = IF ttl_secs = 0 THEN 0 ELSE deadline(ttl_secs)

\* faulty variant: the SET has no NX
quota_nx_overwrite(ttl_secs) == ttl_secs > 0

\* SET NX EX takes effect: the store refuses EX 0, NX skips a present key
quota_nx(ttl_secs) == ttl_secs > 0 /\ quotaKey = None

\* ProxyState::set_quota: SET key remaining NX EX ttl
set_quota(remaining, ttl_secs) ==
    /\ quotaKey' = IF quota_nx(ttl_secs) THEN Some(remaining) ELSE quotaKey
    /\ quotaDl' = IF quota_nx(ttl_secs) THEN deadline(ttl_secs) ELSE quotaDl

\* ProxyState::invalidate_entitlement: DEL of the entitlement key
invalidate_entitlement ==
    /\ entKey' = None
    /\ entDl' = 0

----------------------------------------------------------------------------
(* Actions *)

NoHeaders == [addr |-> "unread", cost |-> UnreadCost, svc |-> "unread"]

\* a request arrives and runs up to the first await of its handler
Receive(r) ==
    /\ req[r].pc = "idle"
    /\ \E p \in Paths :
          IF p \in Routes
          THEN \E k \in ApiKeyVals, a \in AuthzVals :
                  req' = [req EXCEPT ![r] =
                            Router(@, p, cfg.auth_mode, k, a, NoHeaders)]
          ELSE \E ha \in HdrVals, hc \in CostHdrVals, hs \in HdrVals :
                  req' = [req EXCEPT ![r] =
                            Router(@, p, cfg.auth_mode, "unread", "unread",
                                   [addr |-> ha, cost |-> hc, svc |-> hs])]
    /\ UNCHANGED << cfg, now, entKey, quotaKey, entDl, quotaDl, quota0, call,
                    sub, chan >>
    /\ UNCHANGED backend

\* health_handler after the PING
HealthPing(r) ==
    /\ req[r].pc = "ping"
    /\ req' = [req EXCEPT ![r] = [@ EXCEPT !.pc = "done", !.status = 200]]
    /\ UNCHANGED << cfg, now, entKey, quotaKey, entDl, quotaDl, quota0, call,
                    sub, chan >>
    /\ UNCHANGED backend

\* ProxyState::get_entitlement
CacheProbe(r) ==
    /\ req[r].pc = "probe"
    /\ LET rq == Stage(req[r], "probe") IN
       IF IsSome(get_entitlement)
       THEN req' = [req EXCEPT ![r] =
                after_entitlement(
                    [rq EXCEPT !.hit = "hit", !.cache_hits = @ + 1,
                               !.warm = WarmedByRefresh,
                               !.ent = get_entitlement,
                               !.has_entitlement =
                                   allowed(Unwrap(get_entitlement), now)])]
       ELSE req' = [req EXCEPT ![r] =
                [rq EXCEPT !.hit = "miss", !.cache_misses = @ + 1,
                           !.warm = WarmedByRefresh,
                           !.pc = "validate"]]
    /\ UNCHANGED << cfg, now, entKey, quotaKey, entDl, quotaDl, quota0, call,
                    sub, chan >>
    /\ UNCHANGED backend

\* ValidatorClient::validate
Validate(r) ==
    /\ req[r].pc = "validate"
    /\ \E out \in ValidatorOutcomes :
          req' = [req EXCEPT ![r] = on_validate(@, out, cfg.fail_open, now)]
    /\ UNCHANGED << cfg, now, entKey, quotaKey, entDl, quotaDl, quota0, call,
                    sub, chan >>
    /\ UNCHANGED backend

\* proxy_handler at state.set_entitlement of the miss path
SetEntitlement(r) ==
    /\ req[r].pc = "set_ent"
    /\ LET rq == Stage([req[r] EXCEPT !.ewrites = @ + 1], "set_ent") IN
       /\ set_entitlement(Unwrap(rq.ent), rq.ttl_secs)
       /\ req' = [req EXCEPT ![r] =
                    IF IsSome(seed_value(Unwrap(rq.ent), rq.has_entitlement))
                    THEN [rq EXCEPT !.pc = "seed"]
                    ELSE after_entitlement([rq EXCEPT !.ttl_secs = 0])]
    /\ UNCHANGED << cfg, now, quotaKey, quotaDl, quota0, call, sub, chan >>
    /\ UNCHANGED backend

\* proxy_handler at state.set_quota of the miss path
SetQuota(r) ==
    /\ req[r].pc = "seed"
    /\ LET rq == Stage(req[r], "seed")
           v == AsI64(Unwrap(seed_value(Unwrap(rq.ent), rq.has_entitlement)))
           sets == quota_nx(rq.ttl_secs)
       IN
       /\ set_quota(v, rq.ttl_secs)
       /\ req' = [req EXCEPT ![r] =
                    after_entitlement(
                        [rq EXCEPT !.qwrites = @ + (IF sets THEN 1 ELSE 0),
                                   !.ttl_secs = 0])]
    /\ UNCHANGED << cfg, now, entKey, entDl, quota0, call, sub, chan >>
    /\ UNCHANGED backend

\* redis::Script::invoke_async of the atomic script
Script(r) ==
    /\ req[r].pc = "script"
    /\ LET rq == Stage(req[r], "script")
           res == LUA_ATOMIC_CHECK_AND_DECREMENT(
                      quotaKey, AsI64(rq.cost), Unwrap(rq.ent).tier_type)
       IN
       /\ quotaKey' = res.counter
       /\ req' = [req EXCEPT ![r] =
                    on_script_result(
                        [rq EXCEPT !.result = Some(res.ret),
                                   !.qBefore = quotaKey,
                                   !.qAfter = res.counter,
                                   !.qwrites = @ + (IF res.wrote THEN 1 ELSE 0)],
                        res.ret)]
    /\ UNCHANGED << cfg, now, entKey, entDl, quotaDl, quota0, call, sub, chan >>
    /\ UNCHANGED backend

\* upstream_req.send, then the spawn of record_usage and the response
Forward(r) ==
    /\ req[r].pc = "forward"
    /\ \E out \in UpstreamOutcomes :
          req' = [req EXCEPT ![r] = on_upstream(@, out)]
    /\ UNCHANGED << cfg, now, entKey, quotaKey, entDl, quotaDl, quota0, call,
                    sub, chan >>
    /\ UNCHANGED backend

\* the clock advances by a second; the store drops the keys whose timeout
\* has run out
Tick ==
    /\ now < MaxNow
    /\ now' = now + 1
    /\ entKey' = IF entDl <= now + 1 THEN None ELSE entKey
    /\ entDl' = IF entDl <= now + 1 THEN 0 ELSE entDl
    /\ quotaKey' = IF quotaDl <= now + 1 THEN None ELSE quotaKey
    /\ quotaDl' = IF quotaDl <= now + 1 THEN 0 ELSE quotaDl
    /\ UNCHANGED << cfg, quota0, req, call, sub, chan >>
    /\ UNCHANGED backend

----------------------------------------------------------------------------
(* run_pubsub_listener: the task main spawns once *)

\* the listener is back at stream.next() with its message handled
Handled ==
    [sub EXCEPT !.pc = "listening", !.msg = Invalidate, !.ttl = 0,
                !.qBefore = None, !.last = sub.msg.action,
                !.lastUpd = IF sub.msg.action = "Refresh"
                            THEN sub.msg.update ELSE @,
                !.lastAt = IF sub.msg.action = "Refresh" THEN now ELSE @]

\* get_async_pubsub and subscribe; either may fail, and the task returns
SubConnect ==
    /\ sub.pc = "start"
    /\ \E ok \in BOOLEAN :
          sub' = [sub EXCEPT !.pc = IF ok THEN "listening" ELSE "exited"]
    /\ UNCHANGED << cfg, now, entKey, quotaKey, entDl, quotaDl, quota0, req,
                    call, chan >>
    /\ UNCHANGED backend

\* a PUBLISH on the provider channel by the publisher or another client;
\* the store delivers to the connections subscribed at that moment only
Publish ==
    /\ \E m \in Messages :
          IF Subscribed
          THEN /\ Len(chan) < MaxChan
               /\ chan' = Append(chan, m)
               /\ sub' = sub
          ELSE /\ ~sub.missed
               /\ sub' = [sub EXCEPT !.missed = TRUE]
               /\ chan' = chan
    /\ UNCHANGED << cfg, now, entKey, quotaKey, entDl, quotaDl, quota0, req,
                    call >>
    /\ UNCHANGED backend

\* stream.next() gives None: the connection dropped, the loop ends and the
\* task returns Ok
SubStreamEnd ==
    /\ sub.pc = "listening"
    /\ sub' = [sub EXCEPT !.pc = "exited"]
    /\ chan' = << >>
    /\ UNCHANGED << cfg, now, entKey, quotaKey, entDl, quotaDl, quota0, req,
                    call >>
    /\ UNCHANGED backend

\* stream.next() gives a message: payload, serde_json::from_str, and the
\* match up to the first store command
SubNext ==
    /\ sub.pc = "listening"
    /\ chan # << >>
    /\ LET m == Head(chan) IN
       sub' = [sub EXCEPT
                 !.msg = m, !.qBefore = quotaKey,
                 !.pc = CASE m.action = "Invalidate" -> "inv_del"
                          [] m.action = "Refresh" -> "ref_del"
                          [] OTHER -> "exited"]
    /\ chan' = IF sub'.pc = "exited" THEN << >> ELSE Tail(chan)
    /\ UNCHANGED << cfg, now, entKey, quotaKey, entDl, quotaDl, quota0, req,
                    call >>
    /\ UNCHANGED backend

\* PubSubAction::Invalidate: state.invalidate_entitlement
SubInvalidate ==
    /\ sub.pc = "inv_del"
    /\ invalidate_entitlement
    /\ UNCHANGED << quotaKey, quotaDl >>
    /\ sub' = Handled
    /\ UNCHANGED << cfg, now, quota0, req, call, chan >>
    /\ UNCHANGED backend

\* PubSubAction::Refresh: state.invalidate_entitlement
SubRefreshInvalidate ==
    /\ sub.pc = "ref_del"
    /\ invalidate_entitlement
    /\ sub' = [sub EXCEPT !.pc = "ref_set"]
    /\ UNCHANGED << cfg, now, quotaKey, quotaDl, quota0, req, call, chan >>
    /\ UNCHANGED backend

\* PubSubAction::Refresh: to_cached_entitlement, the ttl, and
\* state.set_entitlement
SubSetEntitlement ==
    /\ sub.pc = "ref_set"
    /\ LET tier == sub.msg.update
           ent == to_cached_entitlement(tier)
       IN
       IF ent = None
       THEN /\ sub' = [sub EXCEPT !.pc = "exited"]
            /\ chan' = << >>
            /\ UNCHANGED << entKey, entDl >>
       ELSE LET ttl == ttl_of(Unwrap(ent), now) IN
            /\ set_entitlement(Unwrap(ent), ttl)
            /\ sub' = [sub EXCEPT
                          !.ttl = ttl,
                          !.pc = IF tier.tier_type # 0
                                    /\ IsSome(inner_quota(tier.inner))
                                 THEN "ref_quota" ELSE "ref_get"]
            /\ chan' = chan
    /\ UNCHANGED << cfg, now, quotaKey, quotaDl, quota0, req, call >>
    /\ UNCHANGED backend

\* PubSubAction::Refresh: state.set_quota
SubSetQuota ==
    /\ sub.pc = "ref_quota"
    /\ set_quota(AsI64(Unwrap(inner_quota(sub.msg.update.inner))), sub.ttl)
    /\ sub' = [sub EXCEPT !.pc = "ref_get"]
    /\ UNCHANGED << cfg, now, entKey, entDl, quota0, req, call, chan >>
    /\ UNCHANGED backend

\* PubSubAction::Refresh: state.get_entitlement, then the next turn of the
\* loop
SubGetEntitlement ==
    /\ sub.pc = "ref_get"
    /\ UNCHANGED << entKey, quotaKey, entDl, quotaDl >>
    /\ sub' = Handled
    /\ UNCHANGED << cfg, now, quota0, req, call, chan >>
    /\ UNCHANGED backend

----------------------------------------------------------------------------
(* Specification of the sidecar *)

NoCall == [cost |-> 0, tier_type |-> 0, before |-> None, ret |-> None]

AuthModes == {"None", "ApiKey", "BearerToken"}

\* the keys a cache already holds were written at time 0, the counter with
\* the timeout of its entitlement or, left behind alone, the default one
Init ==
    /\ cfg \in [auth_mode : AuthModes, fail_open : BOOLEAN,
                 cache_ttl_ms : {CACHE_TTL_SECS * 1000}]
    /\ now = 0
    /\ entKey \in {None} \cup { Some(e) : e \in Preloaded }
    /\ quotaKey \in {None} \cup { Some(c) : c \in {0, MaxQuota} }
    /\ entDl = IF entKey = None THEN 0
               ELSE deadline(ttl_of(Unwrap(entKey), 0))
    /\ quotaDl = IF quotaKey = None THEN 0
                 ELSE IF entKey = None
                 THEN deadline(cfg.cache_ttl_ms \div 1000)
                 ELSE entDl
    /\ quota0 = quotaKey
    /\ req = [r \in Reqs |-> IdleReq]
    /\ call = NoCall
    /\ sub = IdleSub
    /\ chan = << >>
    /\ fwd = NoFwd
    /\ BackendIdle

Next ==
    \/ \E r \in Reqs : Receive(r)
    \/ \E r \in Reqs : HealthPing(r)
    \/ \E r \in Reqs : CacheProbe(r)
    \/ \E r \in Reqs : Validate(r)
    \/ \E r \in Reqs : SetEntitlement(r)
    \/ \E r \in Reqs : SetQuota(r)
    \/ \E r \in Reqs : Script(r)
    \/ \E r \in Reqs : Forward(r)
    \/ Tick

Spec == Init /\ [][Next]_vars

----------------------------------------------------------------------------
(* Specification of re-seeding: a pay-per-request entitlement that the      *)
(* validator keeps projecting with the units bought, a cache whose keys     *)
(* time out after a second, and requests of the default cost.              *)

\* the validator's projection of the purchase: one unit, no expiry
UsageResponse == VR("e3", "t3", 3, None, Some(1), None)

\* a request with well-formed headers and no cost header
ReceiveDefaultCost(r) ==
    /\ Receive(r)
    /\ req'[r].pc = "probe"
    /\ req'[r].costHdr.kind = "absent"

\* /validate answers 200 with the projection
ValidateUsage(r) ==
    /\ req[r].pc = "validate"
    /\ req' = [req EXCEPT ![r] =
                on_validate(@, [kind |-> "ok", body |-> Some(UsageResponse)],
                            cfg.fail_open, now)]
    /\ UNCHANGED << cfg, now, entKey, quotaKey, entDl, quotaDl, quota0, call,
                    sub, chan >>
    /\ UNCHANGED backend

InitReseed ==
    /\ cfg \in [auth_mode : {"None"}, fail_open : BOOLEAN,
                 cache_ttl_ms : {1000}]
    /\ now = 0
    /\ entKey = None /\ entDl = 0
    /\ quotaKey = None /\ quotaDl = 0
    /\ quota0 = None
    /\ req = [r \in Reqs |-> IdleReq]
    /\ call = NoCall
    /\ sub = IdleSub
    /\ chan = << >>
    /\ fwd = NoFwd
    /\ BackendIdle

NextReseed ==
    \/ \E r \in Reqs : ReceiveDefaultCost(r)
    \/ \E r \in Reqs : CacheProbe(r)
    \/ \E r \in Reqs : ValidateUsage(r)
    \/ \E r \in Reqs : SetEntitlement(r)
    \/ \E r \in Reqs : SetQuota(r)
    \/ \E r \in Reqs : Script(r)
    \/ \E r \in Reqs : Forward(r)
    \/ Tick

SpecReseed == InitReseed /\ [][NextReseed]_vars

----------------------------------------------------------------------------
(* Specification of the cache under Refresh messages: the listener, the    *)
(* publisher of its channel, the clock, and one request task that sends    *)
(* well-formed headers and no cost header, over a cache that starts empty. *)
(* The validator answers before the first Refresh is published, so that    *)
(* every projection a miss path writes is older than every Refresh.        *)

PubSubReqs == {"r1"}

\* a request whose headers pass the extraction, with the default cost
ReceiveValid(r) ==
    /\ Receive(r)
    /\ req'[r].pc = "probe"
    /\ req'[r].costHdr.kind = "absent"

\* the validator answers 200 with what it held before the purchases that
\* the Refresh messages announce
ValidateOlder(r) ==
    /\ sub.pc \in {"start", "listening"} /\ sub.last = "none"
    /\ chan = << >>
    /\ Validate(r)
    /\ req'[r].vres = "ok"

\* the listener obtains its subscription
SubConnectOk ==
    /\ SubConnect
    /\ sub'.pc = "listening"

\* the publisher publishes a Refresh while the listener is subscribed
PublishRefresh ==
    /\ Subscribed
    /\ Publish
    /\ chan'[Len(chan')].action = "Refresh"

InitPubSub ==
    /\ cfg = [auth_mode |-> "None", fail_open |-> FALSE,
              cache_ttl_ms |-> 1000]
    /\ now = 0
    /\ entKey = None
    /\ quotaKey = None
    /\ entDl = 0
    /\ quotaDl = 0
    /\ quota0 = None
    /\ req = [r \in Reqs |-> IdleReq]
    /\ call = NoCall
    /\ sub = IdleSub
    /\ chan = << >>
    /\ fwd = NoFwd
    /\ BackendIdle

NextPubSub ==
    \/ \E r \in PubSubReqs : ReceiveValid(r)
    \/ \E r \in PubSubReqs : CacheProbe(r)
    \/ \E r \in PubSubReqs : ValidateOlder(r)
    \/ \E r \in PubSubReqs : SetEntitlement(r)
    \/ \E r \in PubSubReqs : SetQuota(r)
    \/ \E r \in PubSubReqs : Script(r)
    \/ \E r \in PubSubReqs : Forward(r)
    \/ SubConnectOk
    \/ PublishRefresh
    \/ SubNext
    \/ SubRefreshInvalidate
    \/ SubSetEntitlement
    \/ SubSetQuota
    \/ SubGetEntitlement
    \/ Tick

SpecPubSub == InitPubSub /\ [][NextPubSub]_vars

----------------------------------------------------------------------------
(* Specification of the listener alone over a cache that holds what a miss *)
(* path left: nothing, an entitlement, or an entitlement and its counter   *)

InitSub ==
    /\ cfg = [auth_mode |-> "None", fail_open |-> FALSE,
              cache_ttl_ms |-> 1000]
    /\ now = 0
    /\ entKey \in {None} \cup { Some(e) : e \in Preloaded }
    /\ quotaKey \in IF entKey # None /\ Unwrap(entKey).tier_type \in {2, 3}
                     THEN { Some(c) : c \in {0, MaxQuota} }
                     ELSE {None}
    /\ entDl = IF entKey = None THEN 0
               ELSE deadline(ttl_of(Unwrap(entKey), 0))
    /\ quotaDl = IF quotaKey = None THEN 0 ELSE entDl
    /\ quota0 = quotaKey
    /\ req = [r \in Reqs |-> IdleReq]
    /\ call = NoCall
    /\ sub = IdleSub
    /\ chan = << >>
    /\ fwd = NoFwd
    /\ BackendIdle

Listener ==
    \/ SubConnect
    \/ SubNext
    \/ SubInvalidate
    \/ SubRefreshInvalidate
    \/ SubSetEntitlement
    \/ SubSetQuota
    \/ SubGetEntitlement

NextSub ==
    \/ Listener
    \/ Publish
    \/ SubStreamEnd
    \/ Tick

SpecSub == InitSub /\ [][NextSub]_vars

\* the messages any client of the store may publish on the channel: those
\* of the publisher, and a Refresh that carries the tier_type 3 the
\* validator uses for pay-per-request
ForeignMessages ==
    Messages
    \cup { Refresh(EntitlementUpdateEvent("pX", "tX", 3,
                                          UsageBased(MaxQuota))) }

\* a PUBLISH on the provider channel while the listener is subscribed
PublishForeign ==
    /\ Subscribed
    /\ Len(chan) < MaxChan
    /\ \E m \in ForeignMessages : chan' = Append(chan, m)
    /\ UNCHANGED << cfg, now, entKey, quotaKey, entDl, quotaDl, quota0, req,
                    call, sub >>
    /\ UNCHANGED backend

NextForeign ==
    \/ Listener
    \/ PublishForeign
    \/ Tick

\* the listener fed by any client of the store
SpecForeign == InitSub /\ [][NextForeign]_vars

\* the runtime keeps polling the spawned task: a step of the listener that
\* stays possible is taken
SpecSubFair == SpecSub /\ WF_vars(Listener)

----------------------------------------------------------------------------
(* Specification of the atomic script alone: one invocation on any counter *)

ScriptCounters == {None} \cup { Some(c) : c \in -1 .. MaxQuota + 1 }
ScriptCosts == -2 .. MaxQuota + 1
ScriptTiers == 0 .. 4

InitScript ==
    /\ cfg = [auth_mode |-> "None", fail_open |-> FALSE,
              cache_ttl_ms |-> CACHE_TTL_SECS * 1000]
    /\ now = 0
    /\ entKey = None
    /\ quotaKey \in ScriptCounters
    /\ entDl = 0
    /\ quotaDl = IF quotaKey = None THEN 0
                 ELSE deadline(cfg.cache_ttl_ms \div 1000)
    /\ sub = IdleSub
    /\ chan = << >>
    /\ quota0 = quotaKey
    /\ req = [r \in Reqs |-> IdleReq]
    /\ call \in [cost : ScriptCosts, tier_type : ScriptTiers,
                 before : {None}, ret : {None}]
    /\ fwd = NoFwd
    /\ BackendIdle

InvokeScript ==
    /\ call.ret = None
    /\ LET res == LUA_ATOMIC_CHECK_AND_DECREMENT(
                      quotaKey, call.cost, call.tier_type)
       IN /\ quotaKey' = res.counter
          /\ call' = [call EXCEPT !.before = Some(quotaKey),
                                  !.ret = Some(res.ret)]
    /\ UNCHANGED << cfg, now, entKey, entDl, quotaDl, quota0, req, sub, chan >>
    /\ UNCHANGED backend

NextScript == InvokeScript

SpecScript == InitScript /\ [][NextScript]_vars

----------------------------------------------------------------------------
(* proxy_handler from the upstream request to the response, with the        *)
(* detached record_usage task                                               *)

Hdr(n, v) == [name |-> n, value |-> v]

\* cfg.address_header and cfg.service_header, at their defaults
address_header == "X-Infrapass-Address"
service_header == "X-Infrapass-Service-Id"

\* the address the client's address header carries
UserAddress == "0xa11ce"

\* further headers a client may send
ExtraHeaders ==
    { Hdr("X-Infrapass-User-Address", "0xbad"),
      Hdr("X-Infrapass-Validated", "false"),
      Hdr("Accept", "text/plain") }

ExtraHeaderLists == UNION { [1 .. k -> ExtraHeaders] : k \in 0 .. MaxHdrs }

\* req.headers() of a request that passes the header extraction
client_headers(extra) ==
    << Hdr(address_header, UserAddress), Hdr(service_header, "svc") >>
        \o extra

\* reqwest::RequestBuilder::header: the value is appended to the values the
\* request already has under that name
header(hs, n, v) == Append(hs, Hdr(n, v))

\* `for (name, value) in req.headers().iter()`: every client header is put
\* on the upstream request
RECURSIVE copy_headers(_, _)
copy_headers(hs, acc) ==
    IF hs = << >> THEN acc
    ELSE copy_headers(Tail(hs), header(acc, Head(hs).name, Head(hs).value))

\* the headers of upstream_req
upstream_headers(client, user_address) ==
    header(header(copy_headers(client, << >>),
                  "X-Infrapass-User-Address", user_address),
           "X-Infrapass-Validated", "true")

Answer(st, b) == [status |-> st, body |-> b]

\* statuses with which the upstream redirects
RedirectStatuses == {302}

\* reqwest::Client with the default redirect policy: a redirect answer is
\* followed and the answer of its target is what send() returns
follow_redirects(first, target) ==
    IF first.status \in RedirectStatuses THEN target ELSE first

\* upstream_req.send(): a connection failure, or the upstream's answer
\* together with the answer of the target it may redirect to
SendOutcomes ==
    { [ok |-> FALSE, first |-> Answer(0, ""), target |-> Answer(0, "")] }
    \cup { [ok |-> TRUE, first |-> Answer(st, "origin"),
                        target |-> Answer(200, "target")] :
                st \in {200, 404, 500} \cup RedirectStatuses }

\* faulty variant: record_usage is spawned whatever send() returned
on_send_spawn_always(rq, f, out) ==
    LET r1 == Stage([rq EXCEPT !.forwards = @ + 1], "forward")
        f1 == [f EXCEPT !.sent = upstream_headers(client_headers(f.extra),
                                                  UserAddress)]
    IN
    IF ~out.ok
    THEN [rq |-> deny_response([r1 EXCEPT !.spawned = @ + 1], 502,
                               "upstream_error"),
          fwd |-> [f1 EXCEPT !.usage = "queued"]]
    ELSE [rq |-> [r1 EXCEPT !.spawned = @ + 1, !.pc = "body"],
          fwd |-> [f1 EXCEPT
                      !.first = Some(out.first),
                      !.resp = Some(follow_redirects(out.first, out.target)),
                      !.usage = "queued"]]

\* proxy_handler on the result of upstream_req.send(), up to
\* upstream_resp.bytes(): the 502, or the spawn of record_usage
on_send(rq, f, out) ==
    LET r1 == Stage([rq EXCEPT !.forwards = @ + 1], "forward")
        f1 == [f EXCEPT !.sent = upstream_headers(client_headers(f.extra),
                                                  UserAddress)]
    IN
    IF ~out.ok
    THEN [rq |-> deny_response(r1, 502, "upstream_error"), fwd |-> f1]
    ELSE [rq |-> [r1 EXCEPT !.spawned = @ + 1, !.pc = "body"],
          fwd |-> [f1 EXCEPT
                      !.first = Some(out.first),
                      !.resp = Some(follow_redirects(out.first, out.target)),
                      !.usage = "queued"]]

\* upstream_req.send()
UpstreamSend(r) ==
    /\ req[r].pc = "forward"
    /\ \E out \in SendOutcomes :
          LET res == on_send(req[r], fwd, out) IN
          /\ req' = [req EXCEPT ![r] = res.rq]
          /\ fwd' = res.fwd
    /\ UNCHANGED << cfg, now, entKey, quotaKey, entDl, quotaDl, quota0, call,
                    sub, chan >>
    /\ UNCHANGED << db, rx, worker, api >>

\* upstream_resp.bytes(), then the response: a failed read leaves through
\* `?` as ProxyError::ReqwestError, which answers 502 with the error's text
UpstreamBody(r) ==
    /\ req[r].pc = "body"
    /\ \E read \in BOOLEAN :
          IF read
          THEN /\ req' = [req EXCEPT ![r] =
                            [Stage(@, "body") EXCEPT
                                !.pc = "done", !.error = "",
                                !.status = Unwrap(fwd.resp).status]]
               /\ fwd' = [fwd EXCEPT !.body = Some(Unwrap(fwd.resp).body)]
          ELSE /\ req' = [req EXCEPT ![r] =
                            deny_response(Stage(@, "body"), 502,
                                          "reqwest_error")]
               /\ fwd' = fwd
    /\ UNCHANGED << cfg, now, entKey, quotaKey, entDl, quotaDl, quota0, call,
                    sub, chan >>
    /\ UNCHANGED << db, rx, worker, api >>

\* the detached task: ValidatorClient::record_usage posts once and its
\* result is dropped
RecordUsage ==
    /\ fwd.usage = "queued"
    /\ \E res \in {"recorded", "unreachable", "api_error"} :
          fwd' = [fwd EXCEPT !.usage = res, !.posts = @ + 1]
    /\ UNCHANGED sidecar
    /\ UNCHANGED << db, rx, worker, api >>

InitUpstream ==
    /\ cfg \in [auth_mode : {"None"}, fail_open : BOOLEAN,
                 cache_ttl_ms : {CACHE_TTL_SECS * 1000}]
    /\ now = 0
    /\ entKey = None /\ entDl = 0
    /\ quotaKey = None /\ quotaDl = 0
    /\ quota0 = None
    /\ req = [r \in Reqs |-> IdleReq]
    /\ call = NoCall
    /\ sub = IdleSub
    /\ chan = << >>
    /\ fwd \in { [NoFwd EXCEPT !.extra = x] : x \in ExtraHeaderLists }
    /\ BackendIdle

NextUpstream ==
    \/ \E r \in PubSubReqs : ReceiveValid(r)
    \/ \E r \in PubSubReqs : CacheProbe(r)
    \/ \E r \in PubSubReqs : Validate(r)
    \/ \E r \in PubSubReqs : SetEntitlement(r)
    \/ \E r \in PubSubReqs : SetQuota(r)
    \/ \E r \in PubSubReqs : Script(r)
    \/ \E r \in PubSubReqs : UpstreamSend(r)
    \/ \E r \in PubSubReqs : UpstreamBody(r)
    \/ RecordUsage

SpecUpstream == InitUpstream /\ [][NextUpstream]_vars

----------------------------------------------------------------------------
(* Repository: the statements sent to the backend database.  NOW() is the   *)
(* clock; a statement result is [ok, db], ok = FALSE standing for the Err   *)
(* the statement returns on its own (no row, unique violation).             *)

EventTypes ==
    {"ProviderRegistered", "ServiceCreated", "ServiceUpdated", "TierCreated",
     "TierPriceUpdated", "TierDeactivated", "TierReactivated",
     "EntitlementPurchased"}

\* the primary identifier an event carries
event_id(ev) ==
    CASE ev = "ProviderRegistered" -> "p1"
      [] ev \in {"ServiceCreated", "ServiceUpdated"} -> "s1"
      [] ev = "EntitlementPurchased" -> "e1"
      [] OTHER -> "t1"

\* the price a TierCreated event carries, and the one of TierPriceUpdated
tier_price == 1
new_price == 2

\* INSERT INTO blockchain_events of Repository::store_event
insert_blockchain_event(d, ev) ==
    LET row == [event_type |-> ev, id |-> event_id(ev)] IN
    IF d.events_unique
       /\ \E i \in 1 .. Len(d.blockchain_events) :
             d.blockchain_events[i] = row
    THEN [ok |-> FALSE, db |-> d]
    ELSE [ok |-> TRUE,
          db |-> [d EXCEPT !.blockchain_events = Append(@, row)]]

\* Repository::create_provider: ON CONFLICT (profile_id) DO UPDATE
create_provider(d, t) ==
    IF \E r \in d.providers : r.profile_id = "p1"
    THEN [d EXCEPT !.providers =
            { [r EXCEPT !.provider_address = "0xp", !.updated_at = t] :
                r \in @ }]
    ELSE [d EXCEPT !.providers = @ \cup
            { [profile_id |-> "p1", provider_address |-> "0xp",
               created_at |-> t, updated_at |-> t] }]

\* Repository::create_service: ON CONFLICT (service_id) DO UPDATE
create_service(d, t) ==
    IF \E r \in d.services : r.service_id = "s1"
    THEN [d EXCEPT !.services =
            { [r EXCEPT !.metadata_uri = "uri0", !.updated_at = t] :
                r \in @ }]
    ELSE [d EXCEPT !.services = @ \cup
            { [service_id |-> "s1", provider_id |-> "p1",
               metadata_uri |-> "uri0", created_at |-> t,
               updated_at |-> t] }]

\* Repository::create_tier: ON CONFLICT (tier_id) DO UPDATE of price,
\* duration_ms, quota_limit
create_tier(d, t) ==
    IF \E r \in d.pricing_tiers : r.tier_id = "t1"
    THEN [d EXCEPT !.pricing_tiers =
            { [r EXCEPT !.price = tier_price, !.updated_at = t] : r \in @ }]
    ELSE [d EXCEPT !.pricing_tiers = @ \cup
            { [tier_id |-> "t1", service_id |-> "s1", price |-> tier_price,
               is_active |-> TRUE, created_at |-> t, updated_at |-> t] }]

\* Repository::update_service_metadata: UPDATE ... RETURNING, fetch_one
update_service_metadata(d, t) ==
    IF d.services = {} THEN [ok |-> FALSE, db |-> d]
    ELSE [ok |-> TRUE,
          db |-> [d EXCEPT !.services =
                    { [r EXCEPT !.metadata_uri = "uri1", !.updated_at = t] :
                        r \in @ }]]

\* Repository::update_tier_price
update_tier_price(d, t) ==
    IF d.pricing_tiers = {} THEN [ok |-> FALSE, db |-> d]
    ELSE [ok |-> TRUE,
          db |-> [d EXCEPT !.pricing_tiers =
                    { [r EXCEPT !.price = new_price, !.updated_at = t] :
                        r \in @ }]]

\* Repository::deactivate_tier (active = FALSE) and reactivate_tier
set_tier_active(d, active, t) ==
    IF d.pricing_tiers = {} THEN [ok |-> FALSE, db |-> d]
    ELSE [ok |-> TRUE,
          db |-> [d EXCEPT !.pricing_tiers =
                    { [r EXCEPT !.is_active = active, !.updated_at = t] :
                        r \in @ }]]

\* Repository::create_entitlement: ON CONFLICT (entitlement_id) DO NOTHING
\* RETURNING *, fetch_one: a conflict returns no row, which is an Err
create_entitlement(d) ==
    IF \E r \in d.entitlements : r.entitlement_id = "e1"
    THEN [ok |-> FALSE, db |-> d]
    ELSE [ok |-> TRUE,
          db |-> [d EXCEPT !.entitlements = @ \cup
                    { [entitlement_id |-> "e1", buyer |-> UserAddress,
                       service_id |-> "s1", tier_id |-> "t1"] }]]

\* Repository::commit_usage: one usage row is appended
commit_usage(d, cost) ==
    [d EXCEPT !.usage =
        Append(@, [entitlement_id |-> "e1", user_address |-> UserAddress,
                   cost |-> cost])]

\* Repository::get_valid_entitlement_response: the buyer's entitlement for
\* the service, if there is one
get_valid_entitlement_response(d) ==
    IF \E r \in d.entitlements :
          r.buyer = UserAddress /\ r.service_id = "s1"
    THEN Some("e1") ELSE None

----------------------------------------------------------------------------
(* EventWorker *)

\* the first statement handle_event awaits for an event
first_step(ev) ==
    CASE ev \in {"ProviderRegistered", "ServiceCreated", "TierCreated"}
            -> "insert_event"
      [] ev = "EntitlementPurchased" -> "create_entitlement"
      [] OTHER -> "update"

\* faulty variant: the error of handle_event ends the run loop
after_handle_halt(w, d, ok) ==
    LET rep == ~w.fault /\ w.lastEv = Some(w.ev) IN
    [w EXCEPT
        !.pc = IF ok THEN "recv" ELSE "stopped",
        !.log = Append(@, IF ok THEN "ok" ELSE "err"),
        !.replay = IF rep /\ Some(d) # w.lastDb THEN "differs"
                   ELSE IF rep /\ @ = "none" THEN "same" ELSE @,
        !.lastEv = IF w.fault THEN None ELSE Some(w.ev),
        !.lastDb = IF w.fault THEN None ELSE Some(d),
        !.fault = FALSE]

\* EventWorker::run after handle_event returned: an Err is logged and the
\* loop goes back to rx.recv().  History: the database is compared with
\* the one the previous handling left when this handling was of the same
\* event and no connection fault hit either of them
after_handle(w, d, ok) ==
    LET rep == ~w.fault /\ w.lastEv = Some(w.ev) IN
    [w EXCEPT
        !.pc = "recv",
        !.log = Append(@, IF ok THEN "ok" ELSE "err"),
        !.replay = IF rep /\ Some(d) # w.lastDb THEN "differs"
                   ELSE IF rep /\ @ = "none" THEN "same" ELSE @,
        !.lastEv = IF w.fault THEN None ELSE Some(w.ev),
        !.lastDb = IF w.fault THEN None ELSE Some(d),
        !.fault = FALSE]

\* faulty variant: the Err of create_entitlement is dropped and the
\* handler goes on to publish
on_create_entitlement_always(w, d, ok) ==
    [w EXCEPT !.pc = "publish", !.inserted = ok]

\* handle_event on the result of repo.create_entitlement: `?` returns the
\* Err, the row goes on to publisher.publish_refresh
on_create_entitlement(w, d, ok) ==
    IF ok THEN [w EXCEPT !.pc = "publish", !.inserted = TRUE]
    ELSE after_handle(w, d, FALSE)

\* utils::get_channel: infrapass:{provider_id}:events
get_channel(p) == << "infrapass", p, "events" >>

\* ent.provider_id of the row create_entitlement returned: the provider of
\* the service the entitlement was bought for
provider_id(d, ent_id) ==
    LET row == CHOOSE r \in d.entitlements : r.entitlement_id = ent_id
    IN IF row.service_id = "s1" THEN "p1" ELSE "p0"

\* faulty variant: the newest payload is taken first
recv_newest(q) == [item |-> q[Len(q)], rest |-> SubSeq(q, 1, Len(q) - 1)]

\* mpsc::Receiver::recv on a channel that holds payloads: the oldest one
recv(q) == [item |-> Head(q), rest |-> Tail(q)]

\* faulty variant: the channel takes a payload whatever it holds
send_ready_unbounded(q) == TRUE

\* mpsc::Sender::send completes when the channel has a free slot
send_ready(q) == Len(q) < ChannelCap

\* the ledger listener sends a payload; a replay is the same event again
ListenerSend ==
    /\ ~rx.closed /\ rx.sent < MaxEvents
    /\ \E ev \in EventTypes :
          rx' = [rx EXCEPT !.queue = Append(@, ev), !.sent = @ + 1,
                           !.sentLog = Append(@, ev)]
    /\ UNCHANGED sidecar
    /\ UNCHANGED << fwd, db, worker, api >>

\* the sender side of the channel is dropped
ListenerClose ==
    /\ ~rx.closed
    /\ rx' = [rx EXCEPT !.closed = TRUE]
    /\ UNCHANGED sidecar
    /\ UNCHANGED << fwd, db, worker, api >>

\* rx.recv(): the next payload, or None once the channel is closed and empty
WorkerRecv ==
    /\ worker.pc = "recv"
    /\ IF rx.queue # << >>
       THEN /\ worker' = [worker EXCEPT !.ev = recv(rx.queue).item,
                                        !.pc = first_step(recv(rx.queue).item),
                                        !.handled = @ + 1,
                                        !.inserted = FALSE, !.pubd = 0,
                                        !.channel = << >>]
            /\ rx' = [rx EXCEPT !.queue = recv(rx.queue).rest,
                                 !.recvd = Append(@, recv(rx.queue).item)]
       ELSE /\ rx.closed
            /\ worker' = [worker EXCEPT !.pc = "stopped"]
            /\ rx' = rx
    /\ UNCHANGED sidecar
    /\ UNCHANGED << fwd, db, api >>

\* store_event: INSERT INTO blockchain_events
WorkerInsertEvent ==
    /\ worker.pc = "insert_event"
    /\ \E fault \in BOOLEAN :
          IF fault
          THEN /\ worker' = after_handle([worker EXCEPT !.fault = TRUE], db,
                                         FALSE)
               /\ db' = db
          ELSE LET res == insert_blockchain_event(db, worker.ev) IN
               /\ db' = res.db
               /\ worker' = IF res.ok THEN [worker EXCEPT !.pc = "upsert"]
                             ELSE after_handle(worker, db, FALSE)
    /\ UNCHANGED sidecar
    /\ UNCHANGED << fwd, rx, api >>

\* store_event: create_provider, create_service or create_tier
WorkerUpsert ==
    /\ worker.pc = "upsert"
    /\ \E fault \in BOOLEAN :
          IF fault
          THEN /\ worker' = after_handle([worker EXCEPT !.fault = TRUE], db,
                                         FALSE)
               /\ db' = db
          ELSE LET d == CASE worker.ev = "ProviderRegistered"
                                -> create_provider(db, now)
                          [] worker.ev = "ServiceCreated"
                                -> create_service(db, now)
                          [] OTHER -> create_tier(db, now)
               IN /\ db' = d
                  /\ worker' = after_handle(worker, d, TRUE)
    /\ UNCHANGED sidecar
    /\ UNCHANGED << fwd, rx, api >>

\* update_service_metadata, update_tier_price, deactivate_tier,
\* reactivate_tier
WorkerUpdate ==
    /\ worker.pc = "update"
    /\ \E fault \in BOOLEAN :
          IF fault
          THEN /\ worker' = after_handle([worker EXCEPT !.fault = TRUE], db,
                                         FALSE)
               /\ db' = db
          ELSE LET res == CASE worker.ev = "ServiceUpdated"
                                -> update_service_metadata(db, now)
                            [] worker.ev = "TierPriceUpdated"
                                -> update_tier_price(db, now)
                            [] worker.ev = "TierDeactivated"
                                -> set_tier_active(db, FALSE, now)
                            [] OTHER -> set_tier_active(db, TRUE, now)
               IN /\ db' = res.db
                  /\ worker' = after_handle(worker, res.db, res.ok)
    /\ UNCHANGED sidecar
    /\ UNCHANGED << fwd, rx, api >>

\* create_entitlement of an EntitlementPurchased event
WorkerCreateEntitlement ==
    /\ worker.pc = "create_entitlement"
    /\ \E fault \in BOOLEAN :
          IF fault
          THEN /\ worker' = after_handle([worker EXCEPT !.fault = TRUE], db,
                                         FALSE)
               /\ db' = db
          ELSE LET res == create_entitlement(db) IN
               /\ db' = res.db
               /\ worker' = on_create_entitlement(worker, db, res.ok)
    /\ UNCHANGED sidecar
    /\ UNCHANGED << fwd, rx, api >>

\* publisher.publish_refresh of an EntitlementPurchased event
WorkerPublish ==
    /\ worker.pc = "publish"
    /\ \E fault \in BOOLEAN :
          worker' =
            IF fault
            THEN after_handle([worker EXCEPT !.fault = TRUE], db, FALSE)
            ELSE after_handle(
                    [worker EXCEPT
                        !.published = @ + 1, !.pubd = @ + 1,
                        !.channel = get_channel(provider_id(db, "e1"))],
                    db, TRUE)
    /\ UNCHANGED sidecar
    /\ UNCHANGED << fwd, db, rx, api >>

\* the database the worker starts over: empty, or holding the tier of an
\* earlier TierCreated event
WorkerDbs ==
    { EmptyDb,
      create_tier(insert_blockchain_event(EmptyDb, "TierCreated").db, 0) }

\* events of the three kinds of handling (upsert, update, purchase)
ChannelEvents == {"TierCreated", "TierPriceUpdated", "EntitlementPurchased"}

\* process_checkpoint: parse_event returned an event and event_tx.send is
\* called with it
ListenerParse ==
    /\ ~rx.closed /\ rx.inhand = None
    /\ rx.sent < MaxParsed
    /\ \E ev \in ChannelEvents : rx' = [rx EXCEPT !.inhand = Some(ev)]
    /\ UNCHANGED sidecar
    /\ UNCHANGED << fwd, db, worker, api >>

\* event_tx.send(parsed).await completes
ListenerEnqueue ==
    /\ ~rx.closed /\ rx.inhand # None
    /\ send_ready(rx.queue)
    /\ rx' = [rx EXCEPT !.queue = Append(@, Unwrap(rx.inhand)),
                        !.sent = @ + 1, !.inhand = None,
                        !.sentLog = Append(@, Unwrap(rx.inhand))]
    /\ UNCHANGED sidecar
    /\ UNCHANGED << fwd, db, worker, api >>

\* the listener and the worker over the bounded channel; the listener's
\* run() never returns, so the sender is not dropped
InitChannel ==
    /\ cfg = [auth_mode |-> "None", fail_open |-> FALSE,
              cache_ttl_ms |-> CACHE_TTL_SECS * 1000]
    /\ now = 0
    /\ entKey = None /\ entDl = 0
    /\ quotaKey = None /\ quotaDl = 0
    /\ quota0 = None
    /\ req = [r \in Reqs |-> IdleReq]
    /\ call = NoCall
    /\ sub = IdleSub
    /\ chan = << >>
    /\ fwd = NoFwd
    /\ db = EmptyDb
    /\ rx = IdleRx
    /\ worker = [IdleWorker EXCEPT !.pc = "recv"]
    /\ api = [a \in ApiReqs |-> IdleApiReq]

NextChannel ==
    \/ ListenerParse
    \/ ListenerEnqueue
    \/ WorkerRecv
    \/ WorkerInsertEvent
    \/ WorkerUpsert
    \/ WorkerUpdate
    \/ WorkerCreateEntitlement
    \/ WorkerPublish

SpecChannel == InitChannel /\ [][NextChannel]_vars

InitWorker ==
    /\ cfg = [auth_mode |-> "None", fail_open |-> FALSE,
              cache_ttl_ms |-> CACHE_TTL_SECS * 1000]
    /\ now = 0
    /\ entKey = None /\ entDl = 0
    /\ quotaKey = None /\ quotaDl = 0
    /\ quota0 = None
    /\ req = [r \in Reqs |-> IdleReq]
    /\ call = NoCall
    /\ sub = IdleSub
    /\ chan = << >>
    /\ fwd = NoFwd
    /\ db \in { [d EXCEPT !.events_unique = u] :
                    d \in WorkerDbs, u \in EventsUnique }
    /\ rx = IdleRx
    /\ worker = [IdleWorker EXCEPT !.pc = "recv"]
    /\ api = [a \in ApiReqs |-> IdleApiReq]

NextWorker ==
    \/ ListenerSend
    \/ ListenerClose
    \/ WorkerRecv
    \/ WorkerInsertEvent
    \/ WorkerUpsert
    \/ WorkerUpdate
    \/ WorkerCreateEntitlement
    \/ WorkerPublish
    \/ Tick

SpecWorker == InitWorker /\ [][NextWorker]_vars

----------------------------------------------------------------------------
(* The validator API server: build_router, api_key_auth and the handlers    *)

\* the API_KEY of the environment
API_KEY == "secret"

PayloadCosts == {0, 1, U64_MAX}

\* faulty variant: a request without a readable Authorization header passes
api_key_auth_or_missing(a) ==
    LET s == to_str(a) IN
    IF s = None THEN TRUE
    ELSE LET t == strip_bearer(Unwrap(s)) IN IsSome(t) /\ Unwrap(t) = API_KEY

\* api_key_auth: whether next.run(req) is reached
api_key_auth(a) ==
    LET s == to_str(a)
        t == IF IsSome(s) THEN strip_bearer(Unwrap(s)) ELSE None
    IN IsSome(t) /\ Unwrap(t) = API_KEY

\* faulty variant: the cost is not checked
record_usage_handler_nocheck(rq) ==
    [rq EXCEPT !.handler = TRUE, !.pc = "commit"]

\* record_usage_handler up to repo.commit_usage
record_usage_handler(rq) ==
    IF rq.cost = 0
    THEN [rq EXCEPT !.handler = TRUE, !.pc = "done", !.status = 400]
    ELSE [rq EXCEPT !.handler = TRUE, !.pc = "commit"]

\* validate_entitlements_handler up to the repository call
validate_entitlements_handler(rq) ==
    [rq EXCEPT !.handler = TRUE, !.pc = "lookup"]

\* build_router: both routes are behind api_key_auth
build_router(rq) ==
    IF ~api_key_auth(rq.authz)
    THEN [rq EXCEPT !.pc = "done", !.status = 401]
    ELSE IF rq.route = "/validate" THEN validate_entitlements_handler(rq)
    ELSE record_usage_handler(rq)

\* a POST arrives and runs up to the first await of its handler
ApiReceive(a) ==
    /\ api[a].pc = "idle"
    /\ \E rt \in {"/validate", "/record_usage"}, az \in AuthzVals,
          c \in PayloadCosts :
          api' = [api EXCEPT ![a] =
                    build_router([@ EXCEPT !.route = rt, !.authz = az,
                                           !.cost = c])]
    /\ UNCHANGED sidecar
    /\ UNCHANGED << fwd, db, rx, worker >>

\* validate_entitlements_handler after get_valid_entitlement_response
ApiLookup(a) ==
    /\ api[a].pc = "lookup"
    /\ \E fault \in BOOLEAN :
          api' = [api EXCEPT ![a] =
                    [@ EXCEPT
                        !.pc = "done", !.reads = @ + 1,
                        !.status =
                            IF fault THEN 500
                            ELSE IF IsSome(get_valid_entitlement_response(db))
                            THEN 200 ELSE 403]]
    /\ UNCHANGED sidecar
    /\ UNCHANGED << fwd, db, rx, worker >>

\* record_usage_handler after repo.commit_usage
ApiCommit(a) ==
    /\ api[a].pc = "commit"
    /\ \E out \in {"ok", "database_error", "other_error"} :
          /\ db' = IF out = "ok" THEN commit_usage(db, api[a].cost) ELSE db
          /\ api' = [api EXCEPT ![a] =
                        [@ EXCEPT
                            !.pc = "done", !.commit = out,
                            !.writes = @ + (IF out = "ok" THEN 1 ELSE 0),
                            !.status =
                                CASE out = "ok" -> 200
                                  [] out = "database_error" -> 500
                                  [] OTHER -> 400]]
    /\ UNCHANGED sidecar
    /\ UNCHANGED << fwd, rx, worker >>

InitBackend ==
    /\ cfg = [auth_mode |-> "None", fail_open |-> FALSE,
              cache_ttl_ms |-> CACHE_TTL_SECS * 1000]
    /\ now = 0
    /\ entKey = None /\ entDl = 0
    /\ quotaKey = None /\ quotaDl = 0
    /\ quota0 = None
    /\ req = [r \in Reqs |-> IdleReq]
    /\ call = NoCall
    /\ sub = IdleSub
    /\ chan = << >>
    /\ fwd = NoFwd
    /\ db \in { EmptyDb, create_entitlement(EmptyDb).db }
    /\ rx = IdleRx
    /\ worker = IdleWorker
    /\ api = [a \in ApiReqs |-> IdleApiReq]

NextBackend ==
    \/ \E a \in ApiReqs : ApiReceive(a)
    \/ \E a \in ApiReqs : ApiLookup(a)
    \/ \E a \in ApiReqs : ApiCommit(a)

SpecBackend == InitBackend /\ [][NextBackend]_vars

----------------------------------------------------------------------------
(* Properties *)

Done(r) == req[r].pc = "done"
Has(tr, s) == \E i \in 1 .. Len(tr) : tr[i] = s
Before(tr, a, b) ==
    \E i, j \in 1 .. Len(tr) : i < j /\ tr[i] = a /\ tr[j] = b
TierOf(r) == Unwrap(req[r].ent).tier_type

\* the scripted decrement of r succeeded
Accepted(r) == IsSome(req[r].result) /\ Unwrap(req[r].result) >= 0

RECURSIVE SumCost(_)
SumCost(S) ==
    IF S = {} THEN 0
    ELSE LET r == CHOOSE x \in S : TRUE IN req[r].cost + SumCost(S \ {r})

\* every request has finished, each was a cache hit that ran the script, and
\* the counter key existed at start and has not timed out; no miss path
\* ran, so only the script wrote the counter
AllRanScriptOnHit ==
    /\ IsSome(quota0) /\ IsSome(quotaKey)
    /\ \A r \in Reqs :
          Done(r) /\ req[r].hit = "hit" /\ IsSome(req[r].result)

\* C1: when all requests of one (user, service) ran the script against a
\* counter that held c0 and nothing else wrote it, the final counter is c0
\* minus the sum of the costs of the requests whose decrement succeeded, and
\* every request either succeeded or was answered 429 quota_exceeded.
C1_ConcurrentDecrement ==
    AllRanScriptOnHit =>
        /\ quotaKey =
              Some(Unwrap(quota0) - SumCost({ r \in Reqs : Accepted(r) }))
        /\ \A r \in Reqs :
              \/ Accepted(r)
              \/ req[r].status = 429 /\ req[r].error = "quota_exceeded"

\* The statement of C1 restricted to costs that fit an i64.
ConcurrentDecrementBelowI64Max ==
    (AllRanScriptOnHit /\ \A r \in Reqs : req[r].cost <= I64_MAX) =>
        /\ quotaKey =
              Some(Unwrap(quota0) - SumCost({ r \in Reqs : Accepted(r) }))
        /\ \A r \in Reqs :
              \/ Accepted(r)
              \/ req[r].status = 429 /\ req[r].error = "quota_exceeded"

DenialReasons ==
    { "invalid_address_header", "missing_sui_address", "invalid_cost_header",
      "invalid_service_header", "missing_service_id",
      "access_denied, no entitlement", "quota_exceeded", "quota_not_ready" }

\* C2: a request is forwarded upstream only after header extraction, then
\* the cache probe (and on a miss the validator) gave an entitlement with
\* allowed() true, then for tier 2 or 3 the script returned a non-negative
\* value; a rejected, denied, quota-exceeded or quota-not-ready request is
\* never forwarded.
C2_ForwardOnlyAfterEnforcement ==
    \A r \in Reqs :
        LET rq == req[r]
            tr == rq.trace
        IN
        /\ Has(tr, "forward") =>
              /\ rq.forwards = 1
              /\ rq.addr = "ok" /\ rq.svc = "ok"
              /\ Before(tr, "extract", "probe")
              /\ Before(tr, "probe", "forward")
              /\ rq.hit = "miss" =>
                    /\ rq.vres = "ok"
                    /\ Before(tr, "probe", "validate")
                    /\ Before(tr, "validate", "forward")
              /\ IsSome(rq.ent) /\ rq.has_entitlement
              /\ TierOf(r) \in {2, 3} =>
                    /\ Accepted(r)
                    /\ Before(tr, "probe", "script")
                    /\ Before(tr, "script", "forward")
                    /\ rq.hit = "miss" => Before(tr, "validate", "script")
        /\ rq.error \in DenialReasons =>
              rq.forwards = 0 /\ ~Has(tr, "forward")

C2_Witness ==
    \E r \in Reqs :
        /\ Done(r) /\ req[r].forwards = 1 /\ req[r].hit = "miss"
        /\ TierOf(r) \in {2, 3}

\* C3: a request whose cost exceeds the current counter value is answered
\* 429 quota_exceeded, is not forwarded, and leaves the counter unchanged.
C3_CostAboveCounterRejected ==
    \A r \in Reqs :
        (/\ IsSome(req[r].result) /\ IsSome(req[r].qBefore)
         /\ req[r].cost > Unwrap(req[r].qBefore))
        => /\ req[r].status = 429 /\ req[r].error = "quota_exceeded"
           /\ req[r].forwards = 0
           /\ req[r].qAfter = req[r].qBefore

\* The statement of C3 restricted to costs that fit an i64.
CostAboveCounterRejectedBelowI64Max ==
    \A r \in Reqs :
        (/\ IsSome(req[r].result) /\ IsSome(req[r].qBefore)
         /\ req[r].cost <= I64_MAX
         /\ req[r].cost > Unwrap(req[r].qBefore))
        => /\ req[r].status = 429 /\ req[r].error = "quota_exceeded"
           /\ req[r].forwards = 0
           /\ req[r].qAfter = req[r].qBefore

\* C4: for every counter state, cost k >= 0 and tier_type t the script
\* returns 0 for t = 0 with the counter untouched; for t in {2,3}: -2 when
\* the key is absent, -1 when c < k with the counter untouched, otherwise
\* c - k with the counter set to c - k; and -3 for any other t with the
\* counter untouched.
C4_ScriptContract ==
    (IsSome(call.ret) /\ call.cost >= 0) =>
        LET c == Unwrap(call.before)
            k == call.cost
            ret == Unwrap(call.ret)
        IN
        CASE call.tier_type = 0 -> ret = 0 /\ quotaKey = c
          [] call.tier_type \in {2, 3} ->
                IF c = None THEN ret = -2 /\ quotaKey = None
                ELSE IF Unwrap(c) < k THEN ret = -1 /\ quotaKey = c
                ELSE ret = Unwrap(c) - k /\ quotaKey = Some(Unwrap(c) - k)
          [] OTHER -> ret = -3 /\ quotaKey = c

C4_Witness ==
    /\ IsSome(call.ret) /\ call.tier_type \in {2, 3} /\ call.cost > 0
    /\ Unwrap(call.ret) = 0
    /\ quotaKey # Unwrap(call.before)

CarriesCredential(rq) ==
    CASE cfg.auth_mode = "ApiKey" -> rq.apiKey = auth_secret
      [] cfg.auth_mode = "BearerToken" -> rq.authz = "Bearer secret"
      [] OTHER -> TRUE

\* C7: with auth_mode ApiKey or BearerToken a request that would run the
\* enforcement pipeline and does not carry the credential is answered 401
\* and never reaches header extraction, the cache, the validator or the
\* upstream.
C7_PipelineBehindAuth ==
    \A r \in Reqs :
        (/\ req[r].pc # "idle" /\ req[r].path \notin Routes
         /\ ~CarriesCredential(req[r]))
        => /\ ~Has(req[r].trace, "extract")
           /\ ~Has(req[r].trace, "probe")
           /\ ~Has(req[r].trace, "validate")
           /\ ~Has(req[r].trace, "forward")
           /\ Done(r) => req[r].status = 401

\* the request ended in header extraction, before any cache, validator or
\* upstream access
RejectedInExtraction(rq) ==
    /\ rq.pc = "done" /\ rq.trace = << "extract" >>
    /\ rq.hit = "none" /\ rq.vres = "none"
    /\ rq.forwards = 0 /\ rq.ewrites = 0 /\ rq.qwrites = 0

CostHeaderInvalid(h) ==
    \/ h.kind \in {"nonascii", "junk"}
    \/ h.kind = "num" /\ h.n < 0

C9_FailOpenForwards ==
    \A r \in Reqs :
        (/\ Done(r) /\ req[r].hit = "miss"
         /\ req[r].vres \in {"unreachable", "5xx"} /\ cfg.fail_open)
        => /\ req[r].forwards = 1
           /\ req[r].error \in {"", "upstream_error"}

\* C10: on a cache miss with the validator call failing on the network and
\* fail_open false, the client gets 503 validator_error, nothing is sent
\* upstream, and no entitlement or counter key is written.
C10_FailClosed ==
    \A r \in Reqs :
        (/\ Done(r) /\ req[r].hit = "miss"
         /\ req[r].vres = "unreachable" /\ ~cfg.fail_open)
        => /\ req[r].status = 503 /\ req[r].error = "validator_error"
           /\ req[r].forwards = 0
           /\ req[r].ewrites = 0 /\ req[r].qwrites = 0
           /\ ~Has(req[r].trace, "set_ent") /\ ~Has(req[r].trace, "seed")

C10_Witness ==
    \E r \in Reqs :
        /\ Done(r) /\ req[r].hit = "miss" /\ req[r].vres = "unreachable"
        /\ ~cfg.fail_open /\ req[r].status = 503

\* C11: on a cache miss answered 403 by the validator the client gets 403
\* and nothing is sent upstream, whatever fail_open is.
C11_Validator403Denies ==
    \A r \in Reqs :
        (Done(r) /\ req[r].hit = "miss" /\ req[r].vres = "403")
        => req[r].status = 403 /\ req[r].forwards = 0

\* the request found the entitlement key with allowed() true for tier 2 or
\* 3, and its script call found no counter key
HitWithoutCounter(r) ==
    /\ req[r].hit = "hit" /\ req[r].has_entitlement
    /\ TierOf(r) \in {2, 3}
    /\ IsSome(req[r].result) /\ req[r].qBefore = None

\* C12: a request that finds the entitlement key with allowed() true for
\* tier 2 or 3 while the counter key is absent is answered 503
\* quota_not_ready, is not forwarded, and does not create the counter key.
C12_QuotaNotReady ==
    \A r \in Reqs :
        HitWithoutCounter(r)
        => /\ Done(r)
           /\ req[r].status = 503 /\ req[r].error = "quota_not_ready"
           /\ req[r].forwards = 0 /\ ~Has(req[r].trace, "forward")
           /\ req[r].qwrites = 0 /\ ~Has(req[r].trace, "seed")

C12_Witness ==
    \E r \in Reqs : HitWithoutCounter(r) /\ Done(r) /\ req[r].status = 503

\* C13: when the entitlement key exists with allowed() true for tier 2 or 3
\* and the counter key does not, the next request of the pair seeds the
\* counter again: after its script call the counter key exists.
C13_NextRequestReseeds ==
    \A r \in Reqs : HitWithoutCounter(r) => IsSome(req[r].qAfter)

\* C14: the counter key never outlives the entitlement key: the counter key
\* does not exist while the entitlement key is absent.
C14_CounterNeverOutlives == entKey = None => quotaKey = None

\* C15: after the listener has handled an Invalidate, neither the
\* entitlement key nor the counter key exists.
C15_InvalidateDeletesBoth ==
    (sub.pc = "listening" /\ sub.last = "Invalidate")
    => entKey = None /\ quotaKey = None

\* the Refresh in hand has made all its writes; only its closing GET remains
RefreshWritten == sub.pc = "ref_get" /\ sub.msg.action = "Refresh"

\* the quota of a quota update, the units of a pay-per-request update
CounterOf(u) ==
    IF u.inner.variant = "Quota" THEN u.inner.quota_limit ELSE u.inner.units

\* C16: once the listener has made the writes of a Refresh for a counter
\* tier, the counter key holds the update's quota (or units) and ends with
\* the entitlement key, whatever counter there was before.
C16_RefreshResetsCounter ==
    (/\ RefreshWritten /\ IsSome(entKey)
     /\ sub.msg.update.inner.variant \in {"Quota", "UsageBased"})
    => /\ quotaKey = Some(CounterOf(sub.msg.update))
       /\ quotaDl = entDl

\* C18: after Invalidate then Refresh(x), a GET of the entitlement key
\* before its timeout ends gives x: id, tier id, tier_type, quota or units,
\* and expires_at of the update.
C18_InvalidateRefreshGet ==
    (RefreshWritten /\ sub.last = "Invalidate" /\ IsSome(get_entitlement))
    => get_entitlement = Some(Projection(sub.msg.update))

C18_Witness ==
    /\ RefreshWritten /\ sub.last = "Invalidate" /\ IsSome(get_entitlement)
    /\ sub.msg.update.inner.variant = "Quota"

\* C20: after the listener's connection dropped, the listener subscribes
\* again.
C20_Resubscribes == [](sub.pc = "exited" => <>Subscribed)

\* C17: a request that arrives after the listener has handled a Refresh of
\* an unexpired quota purchase with quota left (or a pay-per-request
\* purchase with units left), with valid headers and a cost within the
\* quota, is a cache hit, is admitted and forwarded, and never calls
\* /validate.
C17_RefreshWarmsCache ==
    \A r \in Reqs :
        (Done(r) /\ req[r].warm)
        => /\ req[r].hit = "hit" /\ ~Has(req[r].trace, "validate")
           /\ req[r].forwards = 1
           /\ req[r].error \notin DenialReasons

\* the entitlement of the last Refresh handled
Latest == Some(Projection(sub.lastUpd))

\* the entitlement key is absent or holds the latest Refresh
Converged == entKey = None \/ entKey = Latest

\* the longest timeout an entitlement key holding e is written with
MaxTtl(e) ==
    IF IsSome(e.expires_at) THEN Unwrap(e.expires_at)
    ELSE cfg.cache_ttl_ms \div 1000

Settled ==
    /\ ListenerQuiet /\ sub.last = "Refresh"
    /\ \A r \in Reqs : req[r].pc # "set_ent"

----------------------------------------------------------------------------
(* Timeouts of the entitlement key *)

\* the timeout ttl, computed at clock t for entry e, is what the TTL rule
\* allows: at most max(0, expires_at - t), or the configured default
TtlAllowed(e, ttl, t) ==
    IF IsSome(e.expires_at)
    THEN ttl <= (IF Unwrap(e.expires_at) - t > 0
                 THEN Unwrap(e.expires_at) - t ELSE 0)
    ELSE ttl = cfg.cache_ttl_ms \div 1000

C22_TtlAtMostDefault ==
    IsSome(entKey) => entDl - now <= cfg.cache_ttl_ms \div 1000

----------------------------------------------------------------------------
(* Metrics *)

\* the request ended in a denial response of the sidecar
EndedDenied(r) ==
    Done(r) /\ req[r].error # "" /\ req[r].status >= 400

\* the request passed enforcement and got the upstream's answer
EndedAllowed(r) ==
    Done(r) /\ req[r].error = "" /\ req[r].forwards = 1

\* C26: a request that ends in a denial response has incremented
\* requests_denied_total exactly once and requests_allowed_total not at all;
\* an allowed request has incremented requests_allowed_total exactly once
\* and requests_denied_total not at all; and cache_hits + cache_misses
\* counts exactly the requests that reached the cache probe.
C26_MetricsCountEveryOutcome ==
    \A r \in Reqs :
        /\ EndedDenied(r)
           => req[r].requests_denied = 1 /\ req[r].requests_allowed = 0
        /\ EndedAllowed(r)
           => req[r].requests_allowed = 1 /\ req[r].requests_denied = 0
        /\ Done(r)
           => req[r].cache_hits + req[r].cache_misses
                = (IF Has(req[r].trace, "probe") THEN 1 ELSE 0)

----------------------------------------------------------------------------
(* The upstream request, the response, the usage record *)

\* the values a header list has under a name, in order
ValuesOf(hs, n) ==
    LET named(h) == h.name = n IN
    [i \in 1 .. Len(SelectSeq(hs, named)) |-> SelectSeq(hs, named)[i].value]

\* the headers of a list under other names than the two injected ones
NotInjected(hs) ==
    LET other(h) ==
            h.name \notin {"X-Infrapass-User-Address", "X-Infrapass-Validated"}
    IN SelectSeq(hs, other)

\* C23: the request sent upstream carries the validated user address as
\* the only value of X-Infrapass-User-Address and "true" as the only value
\* of X-Infrapass-Validated, whatever headers of those names the client
\* sent, and every other client header unchanged.
C23_InjectedHeadersOnly ==
    fwd.sent # << >>
    => /\ ValuesOf(fwd.sent, "X-Infrapass-User-Address") = << UserAddress >>
       /\ ValuesOf(fwd.sent, "X-Infrapass-Validated") = << "true" >>
       /\ NotInjected(fwd.sent) = NotInjected(client_headers(fwd.extra))

\* C24: a request that reached the upstream call ends 502 upstream_error
\* when the connection failed, and otherwise with the status and the body
\* of the upstream's answer.
C24_UpstreamPassThrough ==
    \A r \in Reqs :
        (Done(r) /\ req[r].forwards = 1)
        => IF fwd.first = None
           THEN req[r].status = 502 /\ req[r].error = "upstream_error"
           ELSE /\ req[r].error = ""
                /\ req[r].status = Unwrap(fwd.first).status
                /\ fwd.body = Some(Unwrap(fwd.first).body)

\* C25: record_usage is spawned at most once per request and only once the
\* upstream has answered; the detached task posts at most once; and no step
\* of it changes the request task or the body handed to the client.
C25_UsageRecordDetached ==
    /\ [](/\ \A r \in Reqs : req[r].spawned <= 1
          /\ fwd.posts <= 1
          /\ fwd.usage # "none"
             => /\ IsSome(fwd.first)
                /\ \E r \in Reqs : req[r].spawned = 1 /\ req[r].forwards = 1
          /\ fwd.usage = "none" => \A r \in Reqs : req[r].spawned = 0)
    /\ [][fwd'.usage # fwd.usage /\ fwd.usage # "none"
            => req' = req /\ fwd'.body = fwd.body /\ fwd'.resp = fwd.resp]_vars

\* a response went out with the upstream's status although the usage record
\* failed
C25_Witness ==
    \E r \in Reqs :
        /\ Done(r) /\ req[r].spawned = 1 /\ req[r].status = 200
        /\ fwd.usage = "unreachable" /\ fwd.posts = 1
        /\ fwd.body = Some(Unwrap(fwd.resp).body)

----------------------------------------------------------------------------
(* The event worker and the database *)

\* C27: the run loop ends only when the channel is closed and drained, by
\* which time every payload sent has been handled, whether or not the
\* handling of an earlier one failed; each handling leaves one log entry.
C27_WorkerSkipsFailedEvent ==
    /\ Len(worker.log) + (IF worker.pc \in {"recv", "stopped"} THEN 0 ELSE 1)
          = worker.handled
    /\ worker.pc = "stopped"
       => /\ rx.closed /\ rx.queue = << >>
          /\ worker.handled = rx.sent

\* the handling of one event failed and the next event was handled
C27_Witness ==
    /\ worker.pc = "stopped"
    /\ Len(worker.log) >= 2
    /\ worker.log[1] = "err" /\ worker.log[2] = "ok"

\* C28: handling an event a second time leaves the database as the first
\* handling left it.
C28_ReplayLeavesDbUnchanged ==
    worker.replay # "differs"

----------------------------------------------------------------------------
(* The validator API server *)

\* C29: POST /record_usage with cost 0 ends 400 and appends no usage row;
\* with a cost above 0 and a commit that succeeds it ends 200 and appends
\* one row; the rows of the table are as many as the calls that committed,
\* equal calls included.
C29_RecordUsageAppends ==
    /\ \A a \in ApiReqs :
          (api[a].pc = "done" /\ api[a].handler
             /\ api[a].route = "/record_usage")
          => /\ api[a].cost = 0
                => api[a].status = 400 /\ api[a].writes = 0
             /\ (api[a].cost > 0 /\ api[a].commit = "ok")
                => api[a].status = 200 /\ api[a].writes = 1
    /\ Len(db.usage) = api["a1"].writes + api["a2"].writes

\* two equal calls have each appended their row
C29_Witness ==
    /\ Len(db.usage) = 2 /\ db.usage[1] = db.usage[2]
    /\ \A a \in ApiReqs : api[a].status = 200 /\ api[a].cost = 1

\* C30: a handler of /validate or /record_usage runs only for a request
\* that carries Authorization: Bearer <API_KEY>; every other request ends
\* 401 and has read and written nothing in the database.
C30_BearerGuardsHandlers ==
    \A a \in ApiReqs :
        /\ api[a].handler => api[a].authz = "Bearer secret"
        /\ (api[a].pc # "idle" /\ api[a].authz # "Bearer secret")
           => /\ api[a].pc = "done" /\ api[a].status = 401
              /\ api[a].reads = 0 /\ api[a].writes = 0
              /\ api[a].commit = "none"

\* one request was refused for its key while another ran its handler
C30_Witness ==
    /\ api["a1"].pc = "done" /\ api["a1"].authz = "secret"
    /\ api["a1"].status = 401
    /\ api["a2"].pc = "done" /\ api["a2"].handler /\ api["a2"].writes = 1

----------------------------------------------------------------------------
\* r is on the miss path with an allowed tier 2 or tier 3 entitlement from
\* the validator
MissAllowedCounterTier(r) ==
    /\ req[r].hit = "miss" /\ req[r].vres = "ok"
    /\ IsSome(req[r].ent) /\ req[r].has_entitlement
    /\ TierOf(r) \in {2, 3}

\* quota for tier 2, units for tier 3
SeedOf(e) == IF e.tier_type = 2 THEN e.quota ELSE e.units

\* C31: on a cache miss with an allowed entitlement from the validator, the
\* timeout is cache_ttl_ms/1000 when expires_at is null; the entitlement key
\* is written with that timeout; for tier 2 (tier 3) the counter is then
\* seeded with quota (units) by set-if-absent with the same timeout; and the
\* script, when the counter covers the cost, decrements it by cost and the
\* request goes on to the upstream.
C31_MissSeedsDecrementsForwards ==
    [][\A r \in Reqs :
        /\ (req[r].pc = "validate" /\ req'[r].pc = "set_ent"
              /\ Unwrap(req'[r].ent).expires_at = None)
            => req'[r].ttl_secs = cfg.cache_ttl_ms \div 1000
        /\ (req[r].pc = "set_ent" /\ req'[r].pc # "set_ent"
              /\ MissAllowedCounterTier(r))
            => /\ entKey' = req[r].ent
               /\ entDl' = deadline(req[r].ttl_secs)
               /\ req'[r].pc = "seed"
               /\ req'[r].ttl_secs = req[r].ttl_secs
        /\ (req[r].pc = "seed" /\ req'[r].pc # "seed")
            => /\ MissAllowedCounterTier(r)
               /\ IsSome(SeedOf(Unwrap(req[r].ent)))
               /\ quotaKey' = IF quotaKey = None
                               THEN SeedOf(Unwrap(req[r].ent)) ELSE quotaKey
               /\ quotaDl' = IF quotaKey = None
                              THEN deadline(req[r].ttl_secs) ELSE quotaDl
               /\ req'[r].pc = "script"
        /\ (req[r].pc = "script" /\ req'[r].pc # "script"
              /\ MissAllowedCounterTier(r)
              /\ IsSome(quotaKey) /\ Unwrap(quotaKey) >= req[r].cost)
            => /\ quotaKey' = Some(Unwrap(quotaKey) - req[r].cost)
               /\ req'[r].pc = "forward"
    ]_vars

\* a miss of a pay-per-request entitlement seeded the absent counter, took
\* a positive cost off it and was forwarded
C31_Witness ==
    \E r \in Reqs :
        /\ MissAllowedCounterTier(r) /\ TierOf(r) = 3
        /\ Done(r) /\ req[r].status = 200
        /\ Len(req[r].trace) >= 6
        /\ SubSeq(req[r].trace, Len(req[r].trace) - 5, Len(req[r].trace))
              = << "probe", "validate", "set_ent", "seed", "script",
                   "forward" >>
        /\ req[r].cost > 0
        /\ req[r].qBefore = Unwrap(req[r].ent).units
        /\ req[r].qAfter =
              Some(Unwrap(Unwrap(req[r].ent).units) - req[r].cost)

----------------------------------------------------------------------------
----------------------------------------------------------------------------
\* C38: once the handling of an EntitlementPurchased event has ended with
\* no connection fault and the purchase is stored, its Refresh has been
\* published, also when this handling was the replay that followed a failed
\* publish.
C38_ReplayPublishesRefresh ==
    (/\ worker.pc \in {"recv", "stopped"}
     /\ worker.lastEv = Some("EntitlementPurchased")
     /\ \E r \in db.entitlements : r.entitlement_id = "e1")
    => worker.published >= 1

----------------------------------------------------------------------------
IsPrefix(a, b) == Len(a) <= Len(b) /\ SubSeq(b, 1, Len(a)) = a

\* C33: the worker takes the events in the order the listener sent them,
\* and it takes the next one only when the handling of the one before has
\* ended and left its log entry (success or failure).
C33_HandlesInSentOrder ==
    /\ [](/\ IsPrefix(rx.recvd, rx.sentLog)
          /\ worker.handled = Len(rx.recvd)
          /\ Len(worker.log) \in {worker.handled - 1, worker.handled}
          /\ worker.pc = "recv" => Len(worker.log) = worker.handled)
    /\ [][worker'.handled # worker.handled
            => /\ worker.pc = "recv"
               /\ Len(worker.log) = worker.handled
               /\ worker'.handled = worker.handled + 1
               /\ worker'.ev = rx.sentLog[worker.handled + 1]]_vars

\* three events were handled in the order sent, the second one sent while
\* the first was being handled and its handling failed
C33_Witness ==
    /\ worker.handled = 3 /\ Len(worker.log) = 3
    /\ worker.log[2] = "err"
    /\ rx.recvd = rx.sentLog
    /\ rx.recvd[1] # rx.recvd[2] /\ rx.recvd[2] # rx.recvd[3]

\* C34: the channel never holds more events than its capacity; a send on a
\* full channel does not complete (the listener keeps the event and parses
\* no further one) until the worker has received; and the events received
\* followed by the events queued are the events sent, in order.
C34_BoundedChannelBlocksSender ==
    /\ [](/\ Len(rx.queue) <= ChannelCap
          /\ rx.recvd \o rx.queue = rx.sentLog)
    /\ [][/\ (rx.inhand # None /\ Len(rx.queue) = ChannelCap)
             => (rx'.inhand = rx.inhand /\ rx'.sentLog = rx.sentLog)
          /\ rx'.sentLog # rx.sentLog
             => /\ rx.inhand # None
                /\ rx'.sentLog = Append(rx.sentLog, Unwrap(rx.inhand))
                /\ rx'.queue = Append(rx.queue, Unwrap(rx.inhand))]_vars

\* the send that waited on the full channel completed after the worker
\* received
C34_Witness ==
    /\ Len(rx.sentLog) = ChannelCap + 1
    /\ Len(rx.queue) = ChannelCap
    /\ Len(rx.recvd) = 1

----------------------------------------------------------------------------
\* C35: whatever cost the header parsing accepted, the script run of a
\* request leaves the counter key no larger than it found it and not below
\* zero.
C35_CounterNeverIncreases ==
    [][\A r \in Reqs :
        (req[r].pc = "script" /\ req'[r].pc # "script" /\ IsSome(quotaKey))
        => /\ IsSome(quotaKey')
           /\ Unwrap(quotaKey') <= Unwrap(quotaKey)
           /\ Unwrap(quotaKey') >= 0]_vars

----------------------------------------------------------------------------
\* the requests the upstream answered
Forwarded == { r \in Reqs : req[r].spawned > 0 }

\* C36: with a pay-per-request entitlement of U units that /validate keeps
\* projecting unchanged, and no Refresh, the costs of the requests forwarded
\* upstream sum to at most U, also across the timeout of the cached keys
\* and the re-seeding that follows.
C36_ForwardedCostWithinUnits ==
    SumCost(Forwarded) <= Unwrap(UsageResponse.units)

----------------------------------------------------------------------------
\* C37: when the listener reads a payload that does not parse, or handles a
\* Refresh whose update does not convert to a cached entitlement, it goes
\* back to waiting for the next message.
C37_BadMessageSkipped ==
    [][/\ (sub.pc = "listening" /\ sub'.msg.action = "junk")
          => sub'.pc = "listening"
       /\ (sub.pc = "ref_set" /\ sub' # sub
             /\ to_cached_entitlement(sub.msg.update) = None)
          => sub'.pc = "listening"]_vars

----------------------------------------------------------------------------
\* C39: the seed of a miss path leaves a counter key that exists as it is,
\* value and timeout, whatever another request has consumed of it; it
\* writes the counter only when the key is absent.
C39_SeedNeverOverwrites ==
    [][\A r \in Reqs :
        (req[r].pc = "seed" /\ req'[r].pc # "seed")
        => /\ IsSome(quotaKey)
              => (quotaKey' = quotaKey /\ quotaDl' = quotaDl
                  /\ req'[r].qwrites = req[r].qwrites)
           /\ quotaKey' # quotaKey => quotaKey = None]_vars

\* two concurrent misses both went through the seed, one seed took effect,
\* and the counter holds the quota less both costs
C39_Witness ==
    \E r1, r2 \in Reqs :
        /\ r1 # r2
        /\ \A r \in {r1, r2} :
              /\ MissAllowedCounterTier(r) /\ Done(r) /\ req[r].status = 200
              /\ Has(req[r].trace, "seed") /\ req[r].cost = 1
        /\ req[r1].qwrites = 2 /\ req[r2].qwrites = 1
        /\ req[r1].qBefore = Some(MaxQuota)
        /\ req[r2].qBefore = req[r1].qAfter
        /\ quotaKey = Some(MaxQuota - 2)

----------------------------------------------------------------------------
\* C40: when the upstream request fails after the script took the cost off
\* the counter, the request is answered 502 upstream_error, the counter is
\* left as it is (the cost stays deducted) and no usage record is spawned.
C40_UpstreamFailureKeepsDeduction ==
    [][\A r \in Reqs :
        (req[r].pc = "forward" /\ req'[r].pc = "done"
         /\ req'[r].status = 502)
        => /\ req'[r].error = "upstream_error"
           /\ quotaKey' = quotaKey /\ quotaDl' = quotaDl
           /\ req'[r].qAfter = req[r].qAfter
           /\ req'[r].spawned = 0
           /\ req'[r].forwards = 1]_vars

\* a request whose cost was taken off the counter ended in 502 and the
\* counter still holds the lowered value
C40_Witness ==
    \E r \in Reqs :
        /\ Done(r) /\ req[r].status = 502
        /\ req[r].error = "upstream_error"
        /\ Accepted(r) /\ req[r].cost = 1
        /\ req[r].qBefore = Some(MaxQuota)
        /\ req[r].qAfter = Some(MaxQuota - 1)
        /\ quotaKey = req[r].qAfter
        /\ req[r].spawned = 0

====
